---- MODULE Spec2Model ----
(***************************************************************************)
(* ReFoodAI backend calculators (tracker / planner / forecast / impact /   *)
(* statistics) as a state machine.  Numbers of the TypeScript source are   *)
(* IEEE doubles; the model computes with exact rationals [n |-> , d |-> ]  *)
(* (d > 0, reduced) and rounds only where the source calls Math.round.     *)
(* The two correlation routines, whose results depend on the rounding of   *)
(* every operation, are computed in binary floating point with a mantissa  *)
(* of MantissaBits bits, rounded to nearest, ties to even, as IEEE 754.    *)
(***************************************************************************)
EXTENDS Integers, Sequences, FiniteSets, TLC

VARIABLES
    pickup_data,      \* TrackerService.pickup_data (loaded once)
    external_data,    \* *.external_data
    production_data,  \* *.production_data
    menu_data,        \* PlannerService.menu_data
    impact_data,      \* ImpactService.impact_data
    database,         \* the SQLite tables the routes read and write: table -> rows
    model_cache,      \* ForecastModel.model_cache : cache_key -> model
    trainings,        \* number of trainModel runs per menu item (history variable)
    calls,            \* the predict calls of concurrent clients: client -> call
    now,              \* the wall clock read by Date.now()
    req,              \* the request being served: [op, input] or NoReq
    res,              \* the response of the last served request or NoRes
    prev              \* the response of the directly preceding identical request

vars == <<pickup_data, external_data, production_data, menu_data, impact_data,
          database, model_cache, trainings, calls, now, req, res, prev>>

store == <<pickup_data, external_data, production_data, menu_data, impact_data>>

\* the regression forecaster's cache and the calls in flight
forecaster == <<model_cache, trainings, calls>>

NoReq == [op |-> "none"]
NoRes == [op |-> "none"]

\* ------------------------------------------------------------------ bounds
MaxLocs == 4
MaxDrivers == 2
MaxClock == 1
MaxCats == 2
MaxAvoid == 1
MantissaBits == 8
MaxSamples == 2
MaxClients == 2
MaxTrainings == 2
MaxUsers == 2
MaxRows == 2
MaxFeatures == 2
MaxLine == 4
MaxDataLines == 2

\* ---------------------------------------------------------------- numbers
Abs(i) == IF i < 0 THEN -i ELSE i

RECURSIVE GCD(_, _)
GCD(a, b) == IF b = 0 THEN a ELSE GCD(b, a % b)

\* the rational n/d, reduced, with a positive denominator
Q(n, d) ==
    LET s == IF d < 0 THEN -1 ELSE 1
        g == GCD(Abs(n), Abs(d))
    IN  [n |-> (s * n) \div g, d |-> (s * d) \div g]

I(i) == [n |-> i, d |-> 1]
RAdd(a, b) ==
    LET g == GCD(a.d, b.d)
    IN  Q(a.n * (b.d \div g) + b.n * (a.d \div g), (a.d \div g) * b.d)
RNeg(a) == [n |-> -a.n, d |-> a.d]
RSub(a, b) == RAdd(a, RNeg(b))
RMul(a, b) ==
    LET g == GCD(Abs(a.n), b.d)
        h == GCD(Abs(b.n), a.d)
    IN  Q((a.n \div g) * (b.n \div h), (a.d \div h) * (b.d \div g))
RDiv(a, b) == RMul(a, [n |-> b.d, d |-> b.n])
RLt(a, b) == RSub(a, b).n < 0
RLe(a, b) == RSub(a, b).n <= 0
RMin(a, b) == IF RLt(b, a) THEN b ELSE a
RMax(a, b) == IF RLt(a, b) THEN b ELSE a
\* Math.round: the nearest integer, a tie going up
Round(a) == (2 * a.n + a.d) \div (2 * a.d)

\* F applied to the value of v, v being evaluated once
With(v, F(_)) == CHOOSE r \in {F(x) : x \in {v}} : TRUE

RECURSIVE SumTo(_, _)
SumTo(s, k) == IF k = 0 THEN 0 ELSE s[k] + SumTo(s, k - 1)
SumSeq(s0) == With(s0, LAMBDA s : SumTo(s, Len(s)))

RECURSIVE RSumTo(_, _)
RSumTo(s, k) == IF k = 0 THEN I(0) ELSE RAdd(RSumTo(s, k - 1), s[k])
RSumSeq(s0) == With(s0, LAMBDA s : RSumTo(s, Len(s)))

Range(s) == {s[i] : i \in 1..Len(s)}

\* s without its i-th element (Array.prototype.splice(i, 1))
Splice(s, i) == [k \in 1..(Len(s) - 1) |-> IF k < i THEN s[k] ELSE s[k + 1]]

\* Array.prototype.sort((a, b) => K(b) - K(a)), LeK(a, b) being K(a) <= K(b): the
\* sort is stable, so an element goes after the larger ones and after the equal
\* ones that precede it
SortDesc(LeK(_, _), s0) ==
    With(s0, LAMBDA s :
        LET pos(i) == 1 + Cardinality({j \in 1..Len(s) : ~LeK(s[j], s[i])})
                        + Cardinality({j \in 1..(i - 1) : LeK(s[i], s[j]) /\ LeK(s[j], s[i])})
        IN  [p \in 1..Len(s) |-> s[CHOOSE i \in 1..Len(s) : pos(i) = p]])

\* the distinct elements of s in order of first appearance (Map insertion order)
Distinct(s0) ==
    With(s0, LAMBDA s :
        LET firsts == {i \in 1..Len(s) : \A j \in 1..(i - 1) : s[j] # s[i]}
            rank(i) == Cardinality({j \in firsts : j <= i})
        IN  [p \in 1..Cardinality(firsts) |-> s[CHOOSE i \in firsts : rank(i) = p]])

Count(s, x) == Cardinality({i \in 1..Len(s) : s[i] = x})

\* --------------------------------------------------------- floating point
RECURSIVE Pow2(_)
Pow2(k) == IF k = 0 THEN 1 ELSE 2 * Pow2(k - 1)

\* the number of binary digits of n > 0
RECURSIVE Bits(_)
Bits(n) == IF n = 0 THEN 0 ELSE 1 + Bits(n \div 2)

\* a number m * 2^e with 2^(MantissaBits-1) <= |m| < 2^MantissaBits, or zero, or NaN
FZero == [m |-> 0, e |-> 0, nan |-> FALSE]
FNaN == [m |-> 0, e |-> 0, nan |-> TRUE]

\* the floating-point number nearest to n * 2^e, a tie going to the even mantissa
FRound(n, e) ==
    IF n = 0 THEN FZero
    ELSE LET s == IF n < 0 THEN -1 ELSE 1
             a == Abs(n)
             k == Bits(a) - MantissaBits
         IN  IF k <= 0
             THEN [m |-> s * a * Pow2(-k), e |-> e + k, nan |-> FALSE]
             ELSE LET q == a \div Pow2(k)
                      r == a % Pow2(k)
                      up == 2 * r > Pow2(k) \/ (2 * r = Pow2(k) /\ q % 2 = 1)
                      m == IF up THEN q + 1 ELSE q
                  IN  IF m = Pow2(MantissaBits)
                      THEN [m |-> s * Pow2(MantissaBits - 1), e |-> e + k + 1, nan |-> FALSE]
                      ELSE [m |-> s * m, e |-> e + k, nan |-> FALSE]

\* the number i of the source as a floating-point number
Fl(i) == FRound(i, 0)

FNeg(a) == [a EXCEPT !.m = -a.m]
FAbs(a) == [a EXCEPT !.m = Abs(a.m)]

\* a + b: the exact sum, rounded; an addend below a quarter of the last place of
\* the other one does not change it
FAdd(a, b) ==
    IF a.nan \/ b.nan THEN FNaN
    ELSE IF a.m = 0 THEN b
    ELSE IF b.m = 0 THEN a
    ELSE LET hi == IF a.e >= b.e THEN a ELSE b
             lo == IF a.e >= b.e THEN b ELSE a
             d == hi.e - lo.e
         IN  IF d >= MantissaBits + 2 THEN hi
             ELSE FRound(hi.m * Pow2(d) + lo.m, lo.e)

FSub(a, b) == FAdd(a, FNeg(b))

FMul(a, b) == IF a.nan \/ b.nan THEN FNaN ELSE FRound(a.m * b.m, a.e + b.e)

\* a / b for b # 0: the quotient to MantissaBits + 3 digits, the last digit
\* recording a remainder, rounded
FDiv(a, b) ==
    IF a.nan \/ b.nan \/ b.m = 0 THEN FNaN
    ELSE LET s == IF (a.m < 0) # (b.m < 0) THEN -1 ELSE 1
             num == Abs(a.m) * Pow2(MantissaBits + 2)
             q == num \div Abs(b.m)
             sticky == IF num % Abs(b.m) = 0 THEN 0 ELSE 1
         IN  FRound(s * (2 * q + sticky), a.e - b.e - MantissaBits - 3)

\* the integer square root of n, lo * lo <= n < hi * hi
RECURSIVE ISqrt(_, _, _)
ISqrt(n, lo, hi) ==
    IF hi - lo <= 1 THEN lo
    ELSE LET mid == (lo + hi) \div 2
         IN  IF mid * mid <= n THEN ISqrt(n, mid, hi) ELSE ISqrt(n, lo, mid)

\* Math.sqrt: NaN for a negative number, else the root rounded
FSqrt(a) ==
    IF a.nan \/ a.m < 0 THEN FNaN
    ELSE IF a.m = 0 THEN FZero
    ELSE LET s == IF (a.e - MantissaBits - 3) % 2 = 0 THEN MantissaBits + 3
                  ELSE MantissaBits + 4
             n == a.m * Pow2(s)
             r == ISqrt(n, 0, Pow2(MantissaBits + 3))
             sticky == IF r * r = n THEN 0 ELSE 1
         IN  FRound(2 * r + sticky, ((a.e - s) \div 2) - 1)

\* -1 <= a <= 1
InUnit(a) ==
    /\ ~a.nan
    /\ \/ a.m = 0
       \/ a.e <= -MantissaBits
       \/ Abs(a.m) = Pow2(MantissaBits - 1) /\ a.e = -(MantissaBits - 1)

\* s.reduce((a, b) => a + b, 0)
RECURSIVE FSumTo(_, _)
FSumTo(s, k) == IF k = 0 THEN FZero ELSE FAdd(FSumTo(s, k - 1), s[k])
FSum(s0) == With(s0, LAMBDA s : FSumTo(s, Len(s)))

\* ------------------------------------------ statistics (Statistics.correlation)
\* the samples as floating-point numbers
Samples(x) == [i \in 1..Len(x) |-> Fl(x[i])]

\* x.reduce((acc, xi, i) => acc + xi * y[i], 0)
SumProducts(x, y) == FSum([i \in 1..Len(x) |-> FMul(x[i], y[i])])

PearsonR(n, sumX, sumY, sumXY, sumXX, sumYY) ==
    With(FSub(FMul(n, sumXY), FMul(sumX, sumY)), LAMBDA numerator :
    With(FSqrt(FMul(FSub(FMul(n, sumXX), FMul(sumX, sumX)),
                    FSub(FMul(n, sumYY), FMul(sumY, sumY)))), LAMBDA denominator :
        IF ~denominator.nan /\ denominator.m = 0 THEN FZero
        ELSE FDiv(numerator, denominator)))

correlation(x0, y0) ==
    With(Samples(x0), LAMBDA x :
    With(Samples(y0), LAMBDA y :
        PearsonR(Fl(Len(x)), FSum(x), FSum(y), SumProducts(x, y),
                 SumProducts(x, x), SumProducts(y, y))))

\* ForecastService.simpleCorrelation: the same computation behind a length guard
simpleCorrelation(x0, y0) ==
    IF Len(x0) = 0 \/ Len(y0) = 0 \/ Len(x0) # Len(y0) THEN FZero
    ELSE With(Samples(x0), LAMBDA x :
         With(Samples(y0), LAMBDA y :
            PearsonR(Fl(Len(x)), FSum(x), FSum(y), SumProducts(x, y),
                     SumProducts(x, x), SumProducts(y, y))))

\* a <= b
FLe(a, b) == FSub(a, b).m <= 0

\* Math.pow(a, 2)
FSquare(a) == FMul(a, a)

\* data.reduce((acc, val) => acc + Math.pow(val - mean, 2), 0)
SumSquaredDeviations(data, mean) ==
    FSum([i \in 1..Len(data) |-> FSquare(FSub(data[i], mean))])

\* [...data].sort((a, b) => a - b)
SortAscending(data) == SortDesc(LAMBDA a, b : FLe(b, a), data)

\* Math.min(...data), Math.max(...data)
FMin(data) == CHOOSE v \in Range(data) : \A w \in Range(data) : FLe(v, w)
FMax(data) == CHOOSE v \in Range(data) : \A w \in Range(data) : FLe(w, v)

\* variant: the sample variance, which divides by n - 1
summary_SampleVariance(data0) ==
    With(Samples(data0), LAMBDA data :
    With(SortAscending(data), LAMBDA sorted :
    With(Len(data), LAMBDA n :
    With(FDiv(FSum(data), Fl(n)), LAMBDA mean :
    With(FDiv(SumSquaredDeviations(data, mean), Fl(n - 1)), LAMBDA variance :
        [mean |-> mean,
         median |-> sorted[(n \div 2) + 1],
         std |-> FSqrt(variance),
         min |-> FMin(data),
         max |-> FMax(data),
         q1 |-> sorted[(n \div 4) + 1],
         q3 |-> sorted[((3 * n) \div 4) + 1]])))))

\* Statistics.summary of a non-empty array; Math.floor(n * 0.25) is n \div 4 and
\* Math.floor(n * 0.75) is (3 * n) \div 4, both products being exact
summary(data0) ==
    With(Samples(data0), LAMBDA data :
    With(SortAscending(data), LAMBDA sorted :
    With(Len(data), LAMBDA n :
    With(FDiv(FSum(data), Fl(n)), LAMBDA mean :
    With(FDiv(SumSquaredDeviations(data, mean), Fl(n)), LAMBDA variance :
        [mean |-> mean,
         median |-> sorted[(n \div 2) + 1],
         std |-> FSqrt(variance),
         min |-> FMin(data),
         max |-> FMax(data),
         q1 |-> sorted[(n \div 4) + 1],
         q3 |-> sorted[((3 * n) \div 4) + 1]])))))

\* Statistics.linearRegression; a division by zero gives NaN (0 / 0) or an
\* infinity, which the numbers here do not have, so both are the not-a-number
linearRegression(x0, y0) ==
    With(Samples(x0), LAMBDA x :
    With(Samples(y0), LAMBDA y :
    With(Fl(Len(x)), LAMBDA n :
    With(FSum(x), LAMBDA sumX :
    With(FSum(y), LAMBDA sumY :
    With(FDiv(FSub(FMul(n, SumProducts(x, y)), FMul(sumX, sumY)),
              FSub(FMul(n, SumProducts(x, x)), FMul(sumX, sumX))), LAMBDA slope :
    With(FDiv(FSub(sumY, FMul(slope, sumX)), n), LAMBDA intercept :
    With(FDiv(sumY, n), LAMBDA yMean :
    With(FSum([i \in 1..Len(y) |->
                  FSquare(FSub(y[i], FAdd(FMul(slope, x[i]), intercept)))]), LAMBDA ssRes :
    With(FSum([i \in 1..Len(y) |-> FSquare(FSub(y[i], yMean))]), LAMBDA ssTot :
        [slope |-> slope,
         intercept |-> intercept,
         r2 |-> FSub(Fl(1), FDiv(ssRes, ssTot))]))))))))))

\* ---------------------------------------------------------------- calendar
\* the days of the records and requests, 2024-05-01 being a Wednesday
Calendar ==
    <<"2024-05-01", "2024-05-02", "2024-05-03", "2024-05-04", "2024-05-05",
       "2024-05-06", "2024-05-07", "2024-05-08", "2024-05-09", "2024-05-10",
       "2024-05-11", "2024-05-12", "2024-05-13", "2024-05-14", "2024-05-15",
       "2024-05-16", "2024-05-17", "2024-05-18", "2024-05-19", "2024-05-20",
       "2024-05-21", "2024-05-22", "2024-05-23", "2024-05-24", "2024-05-25",
       "2024-05-26", "2024-05-27", "2024-05-28", "2024-05-29", "2024-05-30",
       "2024-05-31", "2024-06-01", "2024-06-02", "2024-06-03", "2024-06-04" >>

\* the dates of requests
Dates == {"2024-06-03", "2024-06-04"}

\* the position of a date in the calendar; dates compare as their positions do
DayNumber(date) == CHOOSE i \in 1..Len(Calendar) : Calendar[i] = date

\* new Date(date).getDay(): 0 = Sunday, 6 = Saturday
getDay(date) == (DayNumber(date) + 2) % 7

\* new Date(date).toLocaleDateString('en-US', {weekday: 'long'})
Weekday(date) ==
    <<"Sunday", "Monday", "Tuesday", "Wednesday", "Thursday", "Friday",
      "Saturday">>[getDay(date) + 1]

\* new Date(date).getMonth(): 0 = January
Month(date) == IF DayNumber(date) <= 31 THEN 4 ELSE 5

\* date.startsWith(period), period being a year and a month
StartsWith(date, period) ==
    period = (IF DayNumber(date) <= 31 THEN "2024-05" ELSE "2024-06")

\* ------------------------------------------------------------ the tracker
max_pickups_per_route == 4
max_total_volume == 200

Drivers == <<"d1", "d2", "d3">>

\* String.prototype.includes on lower-cased names, for the names of the model
Includes(dest, p) ==
    \/ p = "bank" /\ dest \in {"Local Food Bank", "City Bank"}
    \/ p = "shelter" /\ dest = "Shelter"

\* a time of day as the string the program holds: its characters, a digit as its
\* value and ':' as Colon, which keeps the order of the code units ('9' < ':')
Colon == 10
Time(h1, h2, m1, m2) == <<h1, h2, Colon, m1, m2>>
ShortTime(h, m1, m2) == <<h, Colon, m1, m2>>

\* a < b on strings: by the first code unit that differs, a prefix being smaller
RECURSIVE StrLt(_, _)
StrLt(a, b) ==
    IF b = <<>> THEN FALSE
    ELSE IF a = <<>> THEN TRUE
    ELSE IF a[1] # b[1] THEN a[1] < b[1]
    ELSE StrLt(Tail(a), Tail(b))

\* t.split(':')[0]
HourPart(t) ==
    LET hits == {i \in 1..Len(t) : t[i] = Colon}
    IN  IF hits = {} THEN t
        ELSE SubSeq(t, 1, (CHOOSE i \in hits : \A k \in hits : i <= k) - 1)

LocationData(location) ==
    SelectSeq(pickup_data, LAMBDA p : p.source_location = location)

getDefaultLocationPattern ==
    [avg_volume |-> I(45),
     day_patterns |-> [d \in {"Monday", "Wednesday", "Friday"} |->
                         CASE d = "Monday" -> Q(12, 10)
                           [] d = "Wednesday" -> Q(11, 10)
                           [] OTHER -> Q(13, 10)],
     time_distribution |-> [peak_start |-> Time(1, 4, 0, 0)],
     destinations |-> <<"Local Food Bank">>,
     success_rate |-> Q(85, 100),
     historical_count |-> 0]

\* the hour with the most pickups, the first one met on a tie; peak_end and
\* distribution are read nowhere
analyzeTimeDistribution(data) ==
    With([i \in 1..Len(data) |-> HourPart(data[i].pickup_time)], LAMBDA hours :
    With(Distinct(hours), LAMBDA keys :
        LET best == CHOOSE i \in 1..Len(keys) :
                        /\ \A k \in 1..Len(keys) : Count(hours, keys[k]) <= Count(hours, keys[i])
                        /\ \A k \in 1..(i - 1) : Count(hours, keys[k]) < Count(hours, keys[i])
        IN  [peak_start |-> (IF Len(keys) = 0 THEN <<1, 4>> ELSE keys[best])
                                \o <<Colon, 0, 0>>]))

Quantities(data) == [i \in 1..Len(data) |-> data[i].quantity_lbs]

\* day -> (average volume of the day) / (overall average volume); a zero overall
\* average makes the quotient NaN, which the reader replaces by 1.0 (x || 1.0)
analyzeDayPatterns(data) ==
    LET days == {Weekday(data[i].date) : i \in 1..Len(data)}
        total == SumSeq(Quantities(data))
    IN  [d \in days |->
            LET rows == SelectSeq(data, LAMBDA p : Weekday(p.date) = d)
            IN  IF total = 0 THEN I(0)
                ELSE RDiv(Q(SumSeq(Quantities(rows)), Len(rows)), Q(total, Len(data)))]

analyzeDestinations(data) ==
    With([i \in 1..Len(data) |-> data[i].destination_partner], LAMBDA dests :
        SortDesc(LAMBDA a, b : Count(dests, a) <= Count(dests, b), Distinct(dests)))

analyzeLocationPatterns(location) ==
    With(LocationData(location), LAMBDA data :
        IF Len(data) = 0 THEN getDefaultLocationPattern
        ELSE [avg_volume |-> Q(SumSeq(Quantities(data)), Len(data)),
              time_distribution |-> analyzeTimeDistribution(data),
              day_patterns |-> analyzeDayPatterns(data),
              destinations |-> analyzeDestinations(data),
              success_rate |-> Q(Cardinality({i \in 1..Len(data) :
                                     data[i].pickup_status = "completed"}), Len(data)),
              historical_count |-> Len(data)])

\* x || 1.0
OrOne(x) == IF x.n = 0 THEN I(1) ELSE x

StudentFactor(date) ==
    With(SelectSeq(external_data, LAMBDA e : e.date = date), LAMBDA hits :
        IF hits = <<>> THEN I(1) ELSE OrOne(hits[1].student_population_factor))

\* the comparisons are those of strings
calculateOptimalTime(pattern, input) ==
    LET peak_start == pattern.time_distribution.peak_start
    IN  IF "time_constraints" \in DOMAIN input
        THEN IF StrLt(peak_start, input.time_constraints.earliest_pickup)
             THEN input.time_constraints.earliest_pickup
             ELSE IF StrLt(input.time_constraints.latest_pickup, peak_start)
             THEN input.time_constraints.latest_pickup
             ELSE peak_start
        ELSE peak_start

estimateVolume(pattern, input) ==
    LET day == Weekday(input.date)
        day_factor == IF day \in DOMAIN pattern.day_patterns
                      THEN OrOne(pattern.day_patterns[day]) ELSE I(1)
    IN  Round(RMul(RMul(pattern.avg_volume, day_factor), StudentFactor(input.date)))

selectBestDestination(pattern, priorities) ==
    LET m == {i \in 1..Len(pattern.destinations) :
                 \E j \in 1..Len(priorities) :
                     Includes(pattern.destinations[i], priorities[j])}
    IN  IF m # {} THEN pattern.destinations[CHOOSE i \in m : \A k \in m : i <= k]
        ELSE IF pattern.destinations # <<>> THEN pattern.destinations[1]
        ELSE "Local Food Bank"

calculatePriorityScore(pattern) ==
    RMin(I(100),
         RAdd(RAdd(RAdd(I(50), RMin(I(30), pattern.avg_volume)),
                   RMul(pattern.success_rate, I(20))),
              RMin(I(10), I(pattern.historical_count))))

\* every pair of places is 5.5 miles apart: the distance matrix holds only 'default'
getEstimatedDistance(source, destination) == Q(55, 10)

\* in dollars: round((8.0 + 0.5 * distance + 0.1 * volume) * 100) / 100
estimateTransportCost(source, destination, volume) ==
    Q(Round(RMul(RAdd(RAdd(I(8), RMul(getEstimatedDistance(source, destination), Q(1, 2))),
                      RMul(I(volume), Q(1, 10))), I(100))), 100)

estimateDuration(source, destination, volume) ==
    Round(RAdd(RMul(getEstimatedDistance(source, destination), I(2)),
               RMax(I(15), RMul(I(volume), Q(1, 2)))))

\* cost / 0 is Infinity, and Math.max(0, 20 - Infinity) is 0
calculateEfficiencyScore(volume, cost) ==
    LET cost_part == IF volume = 0 THEN I(0)
                     ELSE RMax(I(0), RSub(I(20), RMul(RDiv(cost, I(volume)), I(2))))
    IN  RMin(I(100), RAdd(RAdd(I(50), cost_part), RMin(I(30), RMul(I(volume), Q(1, 2)))))

\* the suggestion pushed for available_locations[k]; pickup_counter is k
\* variant: the pickup_id is made from the clock, not from the date of the input
Suggestion_ClockId(input, k) ==
    With(analyzeLocationPatterns(input.available_locations[k]), LAMBDA pattern :
    With(estimateVolume(pattern, input), LAMBDA volume :
    With(selectBestDestination(pattern, input.priority_destinations), LAMBDA destination :
    With(estimateTransportCost(input.available_locations[k], destination, volume),
         LAMBDA cost :
        [pickup_id |-> <<now, k>>,
         source_location |-> input.available_locations[k],
         destination_partner |-> destination,
         recommended_time |-> calculateOptimalTime(pattern, input),
         estimated_volume |-> volume,
         estimated_duration |->
             estimateDuration(input.available_locations[k], destination, volume),
         transport_cost |-> cost,
         driver_assignment |-> "",
         priority_score |-> calculatePriorityScore(pattern),
         efficiency_score |-> calculateEfficiencyScore(volume, cost)]))))

Suggestion(input, k) ==
    With(analyzeLocationPatterns(input.available_locations[k]), LAMBDA pattern :
    With(estimateVolume(pattern, input), LAMBDA volume :
    With(selectBestDestination(pattern, input.priority_destinations), LAMBDA destination :
    With(estimateTransportCost(input.available_locations[k], destination, volume),
         LAMBDA cost :
        [pickup_id |-> <<input.date, k>>,
         source_location |-> input.available_locations[k],
         destination_partner |-> destination,
         recommended_time |-> calculateOptimalTime(pattern, input),
         estimated_volume |-> volume,
         estimated_duration |->
             estimateDuration(input.available_locations[k], destination, volume),
         transport_cost |-> cost,
         driver_assignment |-> "",
         priority_score |-> calculatePriorityScore(pattern),
         efficiency_score |-> calculateEfficiencyScore(volume, cost)]))))

generatePickupSuggestions(input) ==
    SortDesc(LAMBDA a, b : RLe(a.priority_score, b.priority_score),
             [k \in 1..Len(input.available_locations) |-> Suggestion(input, k)])

getDistancePenalty(from, to) == RMin(I(20), RMul(getEstimatedDistance(from, to), I(2)))

\* best.composite_score || 0
BestScore(best) ==
    IF "composite_score" \in DOMAIN best /\ best.composite_score.n # 0
    THEN best.composite_score ELSE I(0)

CompositeScore(current_location, pickup) ==
    RSub(RAdd(RMul(pickup.priority_score, Q(4, 10)),
              RMul(pickup.efficiency_score, Q(4, 10))),
         RMul(getDistancePenalty(current_location, pickup.source_location), Q(2, 10)))

\* feasible.reduce(..., feasible[0]) over feasible[1..k]
RECURSIVE BestFold(_, _, _)
BestFold(current_location, feasible, k) ==
    IF k = 0 THEN feasible[1]
    ELSE With(BestFold(current_location, feasible, k - 1), LAMBDA best :
         With(CompositeScore(current_location, feasible[k]), LAMBDA composite_score :
            IF RLt(BestScore(best), composite_score)
            THEN [composite_score |-> composite_score] @@ feasible[k]
            ELSE best))

Feasible(available, current_volume, max_volume) ==
    SelectSeq(available, LAMBDA p : current_volume + p.estimated_volume <= max_volume)

\* the chosen pickup (a copy carrying composite_score), or <<>> for null
findBestNextPickup(current_location, available, current_volume, max_volume) ==
    With(Feasible(available, current_volume, max_volume), LAMBDA feasible :
        IF feasible = <<>> THEN <<>>
        ELSE BestFold(current_location, feasible, Len(feasible)))

IndexOfId(s, id) ==
    LET hits == {i \in 1..Len(s) : s[i].pickup_id = id}
    IN  IF hits = {} THEN 0 ELSE CHOOSE i \in hits : \A k \in hits : i <= k

calculateTotalDistance(locations) ==
    IF Len(locations) <= 1 THEN I(0)
    ELSE RSumSeq([i \in 1..(Len(locations) - 1) |->
                    getEstimatedDistance(locations[i], locations[i + 1])])

\* variant: the chosen pickup stays among the available ones
RouteStep_NotRemoved(st, driver) ==
    With(findBestNextPickup(st.current_location, st.available,
                            st.total_volume, max_total_volume), LAMBDA found :
        IF found = <<>> THEN [st EXCEPT !.stop = TRUE]
        ELSE With([found EXCEPT !.driver_assignment = driver], LAMBDA best_pickup :
                [st EXCEPT !.i = @ + 1,
                           !.current_location = best_pickup.destination_partner,
                           !.total_volume = @ + best_pickup.estimated_volume,
                           !.total_time = @ + best_pickup.estimated_duration,
                           !.pickups = Append(@, best_pickup)]))

\* one iteration of the for loop of createOptimalRoute on its locals st
RouteStep(st, driver) ==
    With(findBestNextPickup(st.current_location, st.available,
                            st.total_volume, max_total_volume), LAMBDA found :
        IF found = <<>> THEN [st EXCEPT !.stop = TRUE]
        ELSE With([found EXCEPT !.driver_assignment = driver], LAMBDA best_pickup :
             With(IndexOfId(st.available, best_pickup.pickup_id), LAMBDA index :
                [st EXCEPT !.i = @ + 1,
                           !.current_location = best_pickup.destination_partner,
                           !.total_volume = @ + best_pickup.estimated_volume,
                           !.total_time = @ + best_pickup.estimated_duration,
                           !.pickups = Append(@, best_pickup),
                           !.available = IF index > 0 THEN Splice(@, index) ELSE @])))

RECURSIVE RouteLoop(_, _)
RouteLoop(st, driver) ==
    IF st.stop \/ ~(st.i < max_pickups_per_route /\ Len(st.available) > 0) THEN st
    ELSE With(RouteStep(st, driver), LAMBDA next : RouteLoop(next, driver))

\* the route and what is left of available_pickups, which the caller shares
createOptimalRoute(driver, available_pickups, clock) ==
    With(RouteLoop([i |-> 0, current_location |-> "depot", total_volume |-> 0,
                    total_time |-> 0, pickups |-> <<>>,
                    available |-> available_pickups, stop |-> FALSE], driver),
         LAMBDA r :
    With([i \in 1..Len(r.pickups) |-> r.pickups[i].source_location], LAMBDA locations :
        [route |-> [route_id |-> <<"RT", driver, clock>>,
                    driver |-> driver,
                    locations |-> locations,
                    total_distance |-> calculateTotalDistance(locations),
                    total_time |-> r.total_time,
                    total_volume |-> r.total_volume,
                    total_cost |-> RSumSeq([i \in 1..Len(r.pickups) |->
                                              r.pickups[i].transport_cost]),
                    pickups |-> r.pickups],
         available |-> r.available]))

updateRouteMetrics(route) ==
    [route EXCEPT
        !.total_volume = SumSeq([i \in 1..Len(route.pickups) |->
                                   route.pickups[i].estimated_volume]),
        !.total_cost = RSumSeq([i \in 1..Len(route.pickups) |->
                                  route.pickups[i].transport_cost]),
        !.total_time = SumSeq([i \in 1..Len(route.pickups) |->
                                 route.pickups[i].estimated_duration]),
        !.total_distance = calculateTotalDistance(route.locations)]

\* drivers.forEach of optimizeRoutes, for drivers[1..k]
RECURSIVE DriverLoop(_, _, _, _)
DriverLoop(k, drivers, pickups, clock) ==
    IF k = 0 THEN [routes |-> <<>>, remaining |-> pickups]
    ELSE With(DriverLoop(k - 1, drivers, pickups, clock), LAMBDA d :
            IF Len(d.remaining) = 0 THEN d
            ELSE With(createOptimalRoute(drivers[k], d.remaining, clock), LAMBDA c :
                    [routes |-> Append(d.routes, c.route), remaining |-> c.available]))

\* routes.reduce((best, route) => route.total_time < best.total_time ? route : best)
LeastTimeRoute(routes) ==
    CHOOSE i \in 1..Len(routes) :
        /\ \A k \in 1..Len(routes) : routes[i].total_time <= routes[k].total_time
        /\ \A k \in 1..(i - 1) : routes[k].total_time > routes[i].total_time

\* variant: the metrics of the chosen route are left as they were
AppendLeftover_StaleMetrics(routes, pickup) ==
    With(LeastTimeRoute(routes), LAMBDA b :
        [routes EXCEPT ![b] =
            [routes[b] EXCEPT !.pickups =
                Append(@, [pickup EXCEPT !.driver_assignment = routes[b].driver])]])

AppendLeftover(routes, pickup) ==
    With(LeastTimeRoute(routes), LAMBDA b :
        [routes EXCEPT ![b] =
            updateRouteMetrics([routes[b] EXCEPT !.pickups =
                Append(@, [pickup EXCEPT !.driver_assignment = routes[b].driver])])])

\* remaining_pickups.forEach of optimizeRoutes, for remaining_pickups[1..k]
RECURSIVE LeftoverLoop(_, _, _)
LeftoverLoop(routes, remaining_pickups, k) ==
    IF k = 0 THEN routes
    ELSE With(LeftoverLoop(routes, remaining_pickups, k - 1), LAMBDA placed :
            AppendLeftover(placed, remaining_pickups[k]))

optimizeRoutes(pickups, drivers, clock) ==
    With(DriverLoop(Len(drivers), drivers, pickups, clock), LAMBDA d :
        LeftoverLoop(d.routes, d.remaining, Len(d.remaining)))

\* variant: the meals are counted per pickup, not per pound
calculateTotals_PerPickupMeals(routes) ==
    [volume |-> SumSeq([i \in 1..Len(routes) |-> routes[i].total_volume]),
     cost |-> RSumSeq([i \in 1..Len(routes) |-> routes[i].total_cost]),
     meals |-> RSumSeq([i \in 1..Len(routes) |-> RMul(I(Len(routes[i].pickups)), Q(25, 10))]),
     co2 |-> RSumSeq([i \in 1..Len(routes) |->
                 RSumSeq([j \in 1..Len(routes[i].pickups) |->
                     RMul(I(routes[i].pickups[j].estimated_volume), Q(32, 10))])])]

calculateTotals(routes) ==
    [volume |-> SumSeq([i \in 1..Len(routes) |-> routes[i].total_volume]),
     cost |-> RSumSeq([i \in 1..Len(routes) |-> routes[i].total_cost]),
     meals |-> RSumSeq([i \in 1..Len(routes) |->
                 RSumSeq([j \in 1..Len(routes[i].pickups) |->
                     RMul(I(routes[i].pickups[j].estimated_volume), Q(25, 10))])]),
     co2 |-> RSumSeq([i \in 1..Len(routes) |->
                 RSumSeq([j \in 1..Len(routes[i].pickups) |->
                     RMul(I(routes[i].pickups[j].estimated_volume), Q(32, 10))])])]

optimizePickups(input, clock) ==
    With(generatePickupSuggestions(input), LAMBDA pickup_suggestions :
    With(optimizeRoutes(pickup_suggestions, input.available_drivers, clock),
         LAMBDA optimized_routes :
    With(calculateTotals(optimized_routes), LAMBDA totals :
        [optimized_routes |-> optimized_routes,
         total_volume_rescued |-> totals.volume,
         total_meals_equivalent |-> totals.meals,
         total_co2_savings |-> totals.co2,
         total_transport_cost |-> totals.cost])))

\* ------------------------------------------------------- the record store
\* impact_tracking.csv as loaded: sixteen days from 2024-05-19 on, the first two
\* with other values than the later fourteen
ImpactRow(k) ==
    [date |-> Calendar[18 + k],
     food_rescued_lbs_daily |-> IF k <= 2 THEN 40 ELSE 48,
     meals_provided_to_community_daily |-> IF k <= 2 THEN 40 ELSE 60,
     co2_emissions_avoided_lbs_daily |-> 100,
     money_saved_daily |-> IF k <= 2 THEN 100 ELSE 120,
     waste_disposal_cost_avoided_daily |-> IF k <= 2 THEN 10 ELSE 12,
     volunteer_hours_daily |-> IF k <= 2 THEN 0 ELSE 8,
     operational_savings_daily |-> 20,
     community_impact_score_daily |-> IF k <= 2 THEN 80 ELSE 40]

ImpactHistory == [k \in 1..16 |-> ImpactRow(k)]


\* the record sets of impact_tracking.csv: sixteen days, ten days, no record
ImpactHistories == {ImpactHistory, SubSeq(ImpactHistory, 3, 12), <<>>}

\* pickup_operations.csv as loaded: North and South have history, Hall has none
PickupRow(loc, date, time, lbs, dest, status) ==
    [source_location |-> loc, date |-> date, pickup_time |-> time, quantity_lbs |-> lbs,
     destination_partner |-> dest, pickup_status |-> status]

PickupHistory ==
    << PickupRow("North", "2024-06-03", ShortTime(9, 3, 0), 120, "Shelter", "completed"),
       PickupRow("South", "2024-06-04", Time(1, 5, 1, 5), 250, "Local Food Bank", "failed"),
       PickupRow("North", "2024-06-04", Time(1, 6, 0, 0), 100, "City Bank", "completed"),
       PickupRow("North", "2024-06-04", ShortTime(9, 4, 5), 100, "City Bank", "completed") >>

ExternalHistory ==
    << [date |-> "2024-06-03", student_population_factor |-> Q(11, 10),
        weather_condition |-> "Rainy", temperature_f |-> 85,
        precipitation_inches |-> Q(1, 2)] >>

\* daily_production.csv as loaded; waste_percentage is positive in every row
ProdRow(date, day, item, cat, waste, wasted, students, weather, event, temp) ==
    [date |-> date, day_of_week |-> day, menu_item |-> item, category |-> cat,
     waste_percentage |-> waste, quantity_wasted |-> wasted,
     estimated_students |-> students, weather |-> weather, special_event |-> event,
     temperature_f |-> temp]

PastaRows ==
    << ProdRow("2024-05-06", "Monday", "Pasta", "Entree", 20, 8, 1000, "sunny", "none", 60),
       ProdRow("2024-05-07", "Tuesday", "Pasta", "Entree", 10, 4, 900, "rainy", "none", 55),
       ProdRow("2024-05-13", "Monday", "Pasta", "Entree", 30, 12, 1100, "cloudy", "holiday", 70) >>

ChickenRows ==
    << ProdRow("2024-05-06", "Monday", "Chicken Bowl", "Protein", 40, 20, 1000, "sunny", "none", 60),
       ProdRow("2024-05-07", "Tuesday", "Chicken Bowl", "Protein", 30, 15, 900, "rainy", "none", 55),
       ProdRow("2024-05-08", "Wednesday", "Chicken Bowl", "Protein", 35, 14, 1000, "sunny", "none", 65),
       ProdRow("2024-05-13", "Monday", "Chicken Bowl", "Protein", 25, 10, 1100, "cloudy", "holiday", 70),
       ProdRow("2024-06-03", "Monday", "Chicken Bowl", "Protein", 45, 18, 1000, "stormy", "none", 75) >>

RiceRows ==
    << ProdRow("2024-05-06", "Monday", "Rice", "Side", 10, 5, 1000, "sunny", "none", 60),
       ProdRow("2024-05-07", "Tuesday", "Rice", "Side", 12, 6, 900, "rainy", "none", 55),
       ProdRow("2024-05-08", "Wednesday", "Rice", "Side", 14, 7, 1000, "sunny", "none", 65),
       ProdRow("2024-05-13", "Monday", "Rice", "Side", 16, 8, 1100, "cloudy", "holiday", 70),
       ProdRow("2024-06-03", "Monday", "Rice", "Side", 18, 9, 1000, "stormy", "none", 75) >>

ProductionHistory == PastaRows \o ChickenRows \o RiceRows

\* a production history without rows of the category Protein
ProductionNoProtein == PastaRows \o RiceRows

\* a production history without rows of the category Entree
ProductionNoEntree == ChickenRows \o RiceRows

\* a production history in which the dish X sold out every time it was served
SoldOutRows ==
    << ProdRow("2024-05-06", "Monday", "X", "Entree", 0, 0, 1000, "sunny", "none", 60),
       ProdRow("2024-05-13", "Monday", "X", "Entree", 0, 0, 1100, "cloudy", "none", 70) >>

ProductionSoldOut == ProductionHistory \o SoldOutRows

\* menu_planning.csv as loaded, in file order (not ordered by popularity)
MenuRow(name, cat, pop, cost, hours, shelf, season, prep, allergens) ==
    [dish_name |-> name, menu_category |-> cat, popularity_score |-> pop,
     ingredient_cost_per_serving |-> cost, preparation_time_hours |-> hours,
     shelf_life_hours |-> shelf, season_appropriateness |-> season,
     prep_difficulty |-> prep, allergens |-> allergens]

Catalog ==
    << MenuRow("Pasta", "lunch", 6, Q(5, 2), 1, 24, "all_season", "easy", "gluten"),
       MenuRow("Chicken Bowl", "lunch", 10, I(4), 2, 8, "summer", "medium", "none"),
       MenuRow("Oatmeal", "breakfast", 8, I(1), 1, 4, "winter", "easy", "nuts"),
       MenuRow("Salmon", "dinner", 9, I(5), 2, 6, "all_season", "hard", "fish"),
       MenuRow("Veggie Salad", "lunch", 7, I(2), 1, 12, "summer", "unknown", "none") >>

\* the catalog of the single lunch item X
CatalogX == << MenuRow("X", "lunch", 10, I(3), 1, 8, "all_season", "easy", "none") >>

\* ----------------------------------- planner (PlannerService.optimizeMenu)
\* 0/0 and x/0 of the source; serialised as null
NaN == [n |-> 0, d |-> 0]

getSeasonFromMonth(month) ==
    CASE month >= 2 /\ month <= 4 -> "spring"
      [] month >= 5 /\ month <= 7 -> "summer"
      [] month >= 8 /\ month <= 10 -> "fall"
      [] OTHER -> "winter"

getAverageCostPerPound == Q(350, 100)

WastePercentages(rows) == [i \in 1..Len(rows) |-> rows[i].waste_percentage]

\* rows.reduce((sum, d) => sum + d.waste_percentage, 0) / rows.length
AvgWaste(rows) == IF Len(rows) = 0 THEN NaN ELSE Q(SumSeq(WastePercentages(rows)), Len(rows))

\* variant: the avoid list is ignored
getAvailableItems_IgnoreAvoid(target_categories, avoid_items) ==
    SelectSeq(menu_data, LAMBDA item : item.menu_category \in Range(target_categories))

getAvailableItems(target_categories, avoid_items) ==
    SelectSeq(menu_data, LAMBDA item :
        /\ item.menu_category \in Range(target_categories)
        /\ item.dish_name \notin Range(avoid_items))

getPreparationScore(difficulty) ==
    CASE difficulty = "easy" -> I(10)
      [] difficulty = "medium" -> I(7)
      [] difficulty = "hard" -> I(4)
      [] difficulty = "very hard" -> I(2)
      [] OTHER -> I(7)

getDayOfWeekAdjustment(dish_name, date) ==
    With(SelectSeq(production_data, LAMBDA d :
            d.menu_item = dish_name /\ d.day_of_week = Weekday(date)),
         LAMBDA historical_data :
        IF Len(historical_data) = 0 THEN I(1)
        ELSE With(SelectSeq(production_data, LAMBDA d : d.menu_item = dish_name),
                  LAMBDA all_data :
             With(AvgWaste(historical_data), LAMBDA day_avg :
             With(AvgWaste(all_data), LAMBDA overall_avg :
                \* x / 0 is Infinity, which the clamp brings to 1.5; 0 / 0 is NaN,
                \* which Math.max and Math.min return
                IF day_avg = I(0) THEN (IF overall_avg = I(0) THEN NaN ELSE Q(3, 2))
                ELSE RMax(Q(1, 2), RMin(Q(3, 2), RDiv(overall_avg, day_avg)))))))

getSeasonScore(season_appropriateness, date) ==
    IF season_appropriateness = getSeasonFromMonth(Month(date)) THEN I(10)
    ELSE IF season_appropriateness = "all_season" THEN I(8)
    ELSE I(5)

scoreMenuItem(item, input) ==
    With(SelectSeq(production_data, LAMBDA d : d.menu_item = item.dish_name),
         LAMBDA historical_data :
    With([waste_score |-> IF Len(historical_data) > 0
                          THEN RMax(I(1), RSub(I(10),
                                    RDiv(AvgWaste(historical_data), I(10))))
                          ELSE I(5),
          popularity_score |-> I(item.popularity_score),
          cost_score |-> RMax(I(1), RSub(I(10),
                              RMul(item.ingredient_cost_per_serving, I(2)))),
          prep_score |-> getPreparationScore(item.prep_difficulty),
          shelf_life_score |-> RMin(I(10), Q(item.shelf_life_hours, 4)),
          season_score |-> getSeasonScore(item.season_appropriateness, input.date)],
         LAMBDA sc :
        [item |-> item,
         scores |-> [composite_score |->
                       With(getDayOfWeekAdjustment(item.dish_name, input.date),
                            LAMBDA day_adjustment :
                         IF day_adjustment = NaN THEN NaN
                         ELSE RMul(RAdd(RAdd(RAdd(RAdd(RAdd(
                                RMul(sc.waste_score, Q(3, 10)),
                                RMul(sc.popularity_score, Q(25, 100))),
                                RMul(sc.cost_score, Q(2, 10))),
                                RMul(sc.prep_score, Q(1, 10))),
                                RMul(sc.shelf_life_score, Q(1, 10))),
                                RMul(sc.season_score, Q(5, 100))),
                            day_adjustment))] @@ sc,
         historical_data |-> historical_data]))

getCategoryDemandFactor(category) ==
    CASE category = "breakfast" -> Q(7, 10)
      [] category = "lunch" -> Q(8, 10)
      [] category = "dinner" -> Q(9, 10)
      [] OTHER -> Q(7, 10)

calculateBaseQuantity(item, estimated_students) ==
    Round(RMul(RMul(RMul(I(estimated_students), Q(item.popularity_score, 10)),
                    getCategoryDemandFactor(item.menu_category)), Q(3, 10)))

estimateItemCost(item, estimated_students) ==
    RMul(I(calculateBaseQuantity(item, estimated_students)),
         item.ingredient_cost_per_serving)

\* Math.ceil(8 / target_categories.length), the list being non-empty
TargetPerCategory(target_categories) ==
    (8 + Len(target_categories) - 1) \div Len(target_categories)

\* one iteration of the greedy loop on its locals; selected holds positions of
\* sorted_items, category_counts the Map as a function on the keys it has
GreedyStep(st, sorted_items, k, input) ==
    LET item == sorted_items[k].item
        current_count == IF item.menu_category \in DOMAIN st.category_counts
                         THEN st.category_counts[item.menu_category] ELSE 0
    IN  With(estimateItemCost(item, input.estimated_students), LAMBDA estimated_cost :
            IF /\ current_count < TargetPerCategory(input.target_categories)
               /\ Len(st.selected) < 12
               /\ \/ input.budget_constraint = 0
                  \/ RLe(RAdd(st.total_cost, estimated_cost), I(input.budget_constraint))
            THEN [selected |-> Append(st.selected, k),
                  category_counts |->
                      [c \in DOMAIN st.category_counts \cup {item.menu_category} |->
                          IF c = item.menu_category THEN current_count + 1
                          ELSE st.category_counts[c]],
                  total_cost |-> RAdd(st.total_cost, estimated_cost)]
            ELSE st)

RECURSIVE GreedyLoop(_, _, _)
GreedyLoop(sorted_items, k, input) ==
    IF k = 0 THEN [selected |-> <<>>, category_counts |-> <<>>, total_cost |-> I(0)]
    ELSE With(GreedyLoop(sorted_items, k - 1, input), LAMBDA st :
            GreedyStep(st, sorted_items, k, input))

\* sorted_items.find(item => item.menu_category === category && !selected.includes(item))
FallbackItem(sorted_items, selected, category) ==
    LET hits == {k \in 1..Len(sorted_items) :
                    /\ sorted_items[k].item.menu_category = category
                    /\ k \notin Range(selected)}
    IN  IF hits = {} THEN 0 ELSE CHOOSE k \in hits : \A h \in hits : k <= h

\* the loop over target_categories[1..c] that adds one item for a category
\* the greedy loop left without a count
RECURSIVE BackFill(_, _, _, _)
BackFill(sorted_items, st, target_categories, c) ==
    IF c = 0 THEN st.selected
    ELSE With(BackFill(sorted_items, st, target_categories, c - 1), LAMBDA selected :
         With(FallbackItem(sorted_items, selected, target_categories[c]), LAMBDA k :
            IF target_categories[c] \notin DOMAIN st.category_counts /\ k > 0
            THEN Append(selected, k) ELSE selected))

\* b.scores.composite_score - a.scores.composite_score does not put x before y; a
\* comparison that yields NaN counts as 0 in Array.prototype.sort
ScoreLe(x, y) ==
    \/ x.scores.composite_score = NaN
    \/ y.scores.composite_score = NaN
    \/ RLe(x.scores.composite_score, y.scores.composite_score)

selectOptimalCombination(scored_items, input) ==
    With(SortDesc(ScoreLe, scored_items), LAMBDA sorted_items :
    With(GreedyLoop(sorted_items, Len(sorted_items), input), LAMBDA st :
    With(BackFill(sorted_items, st, input.target_categories,
                  Len(input.target_categories)), LAMBDA selected :
        [i \in 1..Len(selected) |-> sorted_items[selected[i]]])))

getExpectedWastePercentage(scored) ==
    IF Len(scored.historical_data) > 0 THEN AvgWaste(scored.historical_data)
    ELSE CASE scored.item.menu_category = "Entree" -> I(12)
           [] scored.item.menu_category = "Side" -> I(15)
           [] scored.item.menu_category = "Dessert" -> I(20)
           [] scored.item.menu_category = "Beverage" -> I(8)
           [] scored.item.menu_category = "Salad" -> I(18)
           [] OTHER -> I(15)

waste_adjustment(scored) ==
    IF Len(scored.historical_data) > 0
    THEN RMax(Q(7, 10), RSub(I(1), RDiv(AvgWaste(scored.historical_data), I(100))))
    ELSE I(1)

generateReasoning(scored) ==
    SelectSeq(<<"high popularity score", "low historical waste",
                "adjusted for waste reduction", "cost-effective",
                "seasonal appropriateness">>, LAMBDA r :
        CASE r = "high popularity score" -> RLe(I(8), scored.scores.popularity_score)
          [] r = "low historical waste" -> RLe(I(7), scored.scores.waste_score)
          [] r = "adjusted for waste reduction" -> RLt(waste_adjustment(scored), Q(9, 10))
          [] r = "cost-effective" -> RLe(I(7), scored.scores.cost_score)
          [] OTHER -> RLe(I(8), scored.scores.season_score))

\* variant: one rounding, of the whole product
generateRecommendation_RoundOnce(scored, input) ==
    With(Round(RMul(RMul(RMul(RMul(I(input.estimated_students),
                                   Q(scored.item.popularity_score, 10)),
                              getCategoryDemandFactor(scored.item.menu_category)),
                         Q(3, 10)), waste_adjustment(scored))),
         LAMBDA recommended_quantity :
        [menu_item |-> scored.item.dish_name,
         category |-> scored.item.menu_category,
         recommended_quantity |-> recommended_quantity,
         expected_waste |-> RMul(I(recommended_quantity),
                                 RDiv(getExpectedWastePercentage(scored), I(100))),
         cost_per_serving |-> scored.item.ingredient_cost_per_serving,
         popularity_score |-> scored.item.popularity_score,
         reasoning |-> generateReasoning(scored)])

generateRecommendation(scored, input) ==
    With(Round(RMul(I(calculateBaseQuantity(scored.item, input.estimated_students)),
                    waste_adjustment(scored))), LAMBDA recommended_quantity :
        [menu_item |-> scored.item.dish_name,
         category |-> scored.item.menu_category,
         recommended_quantity |-> recommended_quantity,
         expected_waste |-> RMul(I(recommended_quantity),
                                 RDiv(getExpectedWastePercentage(scored), I(100))),
         cost_per_serving |-> scored.item.ingredient_cost_per_serving,
         popularity_score |-> scored.item.popularity_score,
         reasoning |-> generateReasoning(scored)])

calculateHistoricalWasteCost(categories) ==
    IF Len(production_data) = 0 THEN I(0)
    ELSE RMul(RDiv(RMul(I(SumSeq([i \in 1..Len(production_data) |->
                                    production_data[i].quantity_wasted])),
                        getAverageCostPerPound), I(Len(production_data))),
              Q(Len(categories), 3))

\* itemName.includes(...) for the dish names of the catalogs
ProteinNames == {"Chicken Bowl", "Salmon"}
CarbNames == {"Pasta"}
VegetableNames == {"Veggie Salad"}
DessertNames == {}

analyzeNutritionalBalance(recommendations) ==
    LET count(names) == Cardinality({i \in 1..Len(recommendations) :
                                        recommendations[i].menu_item \in names})
    IN  [protein_items |-> count(ProteinNames), carb_items |-> count(CarbNames),
         vegetable_items |-> count(VegetableNames), dessert_items |-> count(DessertNames)]

\* expected_waste / recommended_quantity > 0.15; 0/0 is NaN, which is not > 0.15
HighRisk(rec) ==
    rec.recommended_quantity # 0 /\
    RLt(Q(15, 100), RDiv(rec.expected_waste, I(rec.recommended_quantity)))

assessRisks(recommendations, input) ==
    With(SelectSeq(external_data, LAMBDA e : e.date = input.date), LAMBDA found :
        [high_risk_items |->
            [i \in 1..Len(SelectSeq(recommendations, HighRisk)) |->
                SelectSeq(recommendations, HighRisk)[i].menu_item],
         safe_items |->
            [i \in 1..Len(SelectSeq(recommendations, LAMBDA r : ~HighRisk(r))) |->
                SelectSeq(recommendations, LAMBDA r : ~HighRisk(r))[i].menu_item],
         weather_considerations |->
            IF found = <<>> THEN <<>>
            ELSE SelectSeq(<<"Rainy weather may reduce foot traffic",
                             "Hot weather favors cold items and beverages",
                             "Cold weather increases demand for hot items">>, LAMBDA w :
                    CASE w = "Rainy weather may reduce foot traffic" ->
                            found[1].weather_condition \in {"Rainy", "Light Rain"}
                      [] w = "Hot weather favors cold items and beverages" ->
                            found[1].temperature_f > 80
                      [] OTHER -> found[1].temperature_f < 50)])

optimizeMenu(input) ==
    With(getAvailableItems(input.target_categories, input.avoid_items),
         LAMBDA available_items :
    With([i \in 1..Len(available_items) |-> scoreMenuItem(available_items[i], input)],
         LAMBDA scored_items :
    With(selectOptimalCombination(scored_items, input), LAMBDA selected_items :
    With([i \in 1..Len(selected_items) |->
            generateRecommendation(selected_items[i], input)], LAMBDA recommendations :
    With(RSumSeq([i \in 1..Len(recommendations) |-> recommendations[i].expected_waste]),
         LAMBDA total_expected_waste :
    With(SumSeq([i \in 1..Len(recommendations) |->
                   recommendations[i].recommended_quantity]), LAMBDA total_production :
        [recommended_menu |-> recommendations,
         total_cost |-> RSumSeq([i \in 1..Len(recommendations) |->
                        RMul(I(recommendations[i].recommended_quantity),
                             recommendations[i].cost_per_serving)]),
         total_expected_waste |-> total_expected_waste,
         waste_percentage |-> IF total_production = 0 THEN NaN
                              ELSE RMul(RDiv(total_expected_waste, I(total_production)),
                                        I(100)),
         cost_savings |-> RMax(I(0),
                            RSub(calculateHistoricalWasteCost(input.target_categories),
                                 RMul(total_expected_waste, getAverageCostPerPound))),
         nutritional_balance |-> analyzeNutritionalBalance(recommendations),
         risk_assessment |-> assessRisks(recommendations, input)]))))))

\* the constraints of the query string; 0 and <<>> stand for an absent parameter
\* (parseInt/parseFloat results that are 0 are falsy as well)
getMenuSuggestions(constraints) ==
    LET by_time == IF constraints.max_prep_time # 0
                   THEN SelectSeq(menu_data, LAMBDA item :
                            item.preparation_time_hours <= constraints.max_prep_time)
                   ELSE menu_data
        by_cost == IF constraints.cost_limit # 0
                   THEN SelectSeq(by_time, LAMBDA item :
                            RLe(item.ingredient_cost_per_serving, I(constraints.cost_limit)))
                   ELSE by_time
        by_diet == IF constraints.dietary_restrictions # <<>>
                   THEN SelectSeq(by_cost, LAMBDA item :
                            item.allergens \notin Range(constraints.dietary_restrictions))
                   ELSE by_cost
    IN  SortDesc(LAMBDA x, y : x.popularity_score <= y.popularity_score, by_diet)

\* filtered_items is this.menu_data itself when no filter ran, and sort is in place
SuggestionsSortStore(constraints) ==
    /\ constraints.max_prep_time = 0
    /\ constraints.cost_limit = 0
    /\ constraints.dietary_restrictions = <<>>

\* ------------------------------------- forecast (ForecastService.predict)
\* weather_map[weather.toLowerCase()] || 1, the same table in both forecasters
encodeWeather(weather) ==
    CASE weather = "sunny" -> 1
      [] weather = "cloudy" -> 2
      [] weather = "rainy" -> 3
      [] weather = "stormy" -> 4
      [] OTHER -> 1

encodeDayOfWeek(day) ==
    CASE day = "Monday" -> 1
      [] day = "Tuesday" -> 2
      [] day = "Wednesday" -> 3
      [] day = "Thursday" -> 4
      [] day = "Friday" -> 5
      [] day = "Saturday" -> 6
      [] day = "Sunday" -> 7
      [] OTHER -> 1

encodeEvent(event) ==
    CASE event = "holiday" -> 1
      [] event = "orientation" -> 2
      [] event = "exam_week" -> 3
      [] event = "sports_game" -> 4
      [] event = "graduation" -> 5
      [] OTHER -> 0

\* a || b for a string a
OrElse(a, b) == IF a = "" THEN b ELSE a

getWeatherFactor(weather) ==
    CASE weather = "cloudy" -> Q(11, 10)
      [] weather = "rainy" -> Q(13, 10)
      [] weather = "stormy" -> Q(15, 10)
      [] OTHER -> I(1)

getDayOfWeekFactor(menu_item, date) ==
    With(SelectSeq(production_data, LAMBDA d : d.menu_item = menu_item), LAMBDA rows :
    With(SelectSeq(rows, LAMBDA d : d.day_of_week = Weekday(date)), LAMBDA day_data :
        IF Len(day_data) = 0 THEN I(1)
        ELSE RDiv(AvgWaste(day_data), AvgWaste(rows))))

getEventFactor(event) ==
    CASE event = "holiday" -> Q(7, 10)
      [] event = "orientation" -> Q(12, 10)
      [] event = "exam_week" -> Q(8, 10)
      [] event = "sports_game" -> Q(13, 10)
      [] event = "graduation" -> Q(9, 10)
      [] OTHER -> I(1)

getStudentFactor(estimated_students) ==
    RMax(Q(1, 2), RMin(Q(3, 2),
         RSub(Q(12, 10), RMul(Q(estimated_students, 1000), Q(2, 10)))))

\* the influences reported when the correlations are not computed
DefaultInfluence ==
    [weather_impact |-> Fl(20), day_of_week_impact |-> Fl(15),
     seasonal_impact |-> Fl(10), event_impact |-> Fl(25)]

\* Math.abs(r) * 100
Impact(r) == FMul(FAbs(r), Fl(100))

ForecastService_analyzeFactorInfluence(menu_item) ==
    With(SelectSeq(production_data, LAMBDA d : d.menu_item = menu_item), LAMBDA rows :
        IF Len(rows) < 5 THEN DefaultInfluence
        ELSE With(WastePercentages(rows), LAMBDA waste_scores :
            [weather_impact |-> Impact(simpleCorrelation(
                 [i \in 1..Len(rows) |-> encodeWeather(rows[i].weather)], waste_scores)),
             day_of_week_impact |-> Impact(simpleCorrelation(
                 [i \in 1..Len(rows) |-> encodeDayOfWeek(rows[i].day_of_week)], waste_scores)),
             seasonal_impact |-> Impact(simpleCorrelation(
                 [i \in 1..Len(rows) |-> Month(rows[i].date)], waste_scores)),
             event_impact |-> Impact(simpleCorrelation(
                 [i \in 1..Len(rows) |-> encodeEvent(rows[i].special_event)], waste_scores))]))

\* the result of the fallback for the average waste avg of the category
CategoryResult(input, avg, accuracy) ==
    With(RMul(RDiv(avg, I(100)), I(input.quantity_to_prepare)), LAMBDA predicted_waste :
        [predicted_waste |-> predicted_waste,
         predicted_waste_percentage |-> avg,
         confidence_interval |-> [lower |-> RMul(predicted_waste, Q(7, 10)),
                                  upper |-> RMul(predicted_waste, Q(13, 10))],
         recommended_quantity |-> Round(RMul(I(input.quantity_to_prepare), Q(95, 100))),
         potential_savings |-> I(0),
         model_accuracy |-> accuracy,
         factors_influence |-> DefaultInfluence])

ForecastService_predictFromCategory(input) ==
    With(SelectSeq(production_data, LAMBDA d : d.menu_item = input.menu_item),
         LAMBDA item_records :
    With(IF Len(item_records) = 0 THEN "Protein" ELSE item_records[1].category,
         LAMBDA category :
    With(SelectSeq(production_data, LAMBDA d : d.category = category),
         LAMBDA category_data :
        IF Len(category_data) = 0
        THEN CategoryResult(input, AvgWaste(production_data), Q(65, 100))
        ELSE CategoryResult(input, AvgWaste(category_data), Q(7, 10)))))

ForecastService_predict(input) ==
    With(SelectSeq(production_data, LAMBDA d : d.menu_item = input.menu_item),
         LAMBDA menu_item_data :
    IF Len(menu_item_data) < 3 THEN ForecastService_predictFromCategory(input)
    ELSE
    With(AvgWaste(menu_item_data), LAMBDA historical_waste_avg :
    With(RMax(I(1), RMin(I(50),
            RMul(RMul(RMul(RMul(historical_waste_avg,
                getWeatherFactor(OrElse(input.weather, "sunny"))),
                getDayOfWeekFactor(input.menu_item, input.date)),
                getEventFactor(OrElse(input.special_event, "none"))),
                getStudentFactor(IF input.estimated_students = 0 THEN 1000
                                 ELSE input.estimated_students)))),
         LAMBDA adjusted_waste_percentage :
    With(RMul(RDiv(adjusted_waste_percentage, I(100)), I(input.quantity_to_prepare)),
         LAMBDA predicted_waste :
        [predicted_waste |-> predicted_waste,
         predicted_waste_percentage |-> adjusted_waste_percentage,
         confidence_interval |-> [lower |-> RMul(predicted_waste, Q(8, 10)),
                                  upper |-> RMul(predicted_waste, Q(12, 10))],
         recommended_quantity |->
             Round(RDiv(I(input.quantity_to_prepare * (100 - 5)),
                        RSub(I(100), adjusted_waste_percentage))),
         potential_savings |->
             RMax(I(0), RMul(RDiv(RSub(historical_waste_avg, adjusted_waste_percentage),
                                  I(100)), I(input.quantity_to_prepare))),
         model_accuracy |-> Q(85, 100),
         factors_influence |-> ForecastService_analyzeFactorInfluence(input.menu_item)]))))

\* ----------------------------- regression forecast (ForecastModel.predict)
getMenuItemData(menu_item) == SelectSeq(production_data, LAMBDA d : d.menu_item = menu_item)

encodeSpecialEvent(event) ==
    CASE event = "holiday" -> 1
      [] event = "orientation" -> 2
      [] event = "exam_week" -> 3
      [] event = "spring_break" -> 4
      [] event = "sports_game" -> 5
      [] event = "graduation" -> 6
      [] OTHER -> 0

getAverageWastePercentage(menu_item) ==
    With(getMenuItemData(menu_item), LAMBDA data :
        IF Len(data) = 0 THEN I(15) ELSE AvgWaste(data))

getSeasonalFactor(menu_item, month) ==
    With(getMenuItemData(menu_item), LAMBDA data :
    With(SelectSeq(data, LAMBDA d : Month(d.date) = month), LAMBDA seasonal_data :
        IF Len(seasonal_data) = 0 THEN I(1)
        ELSE RDiv(AvgWaste(seasonal_data), AvgWaste(data))))

\* s.slice(-k)
Last(s, k) == IF Len(s) <= k THEN s ELSE SubSeq(s, Len(s) - k + 1, Len(s))

getHistoricalAverage(menu_item, before_date) ==
    With(Last(SelectSeq(getMenuItemData(menu_item),
                        LAMBDA d : DayNumber(d.date) < DayNumber(before_date)), 10),
         LAMBDA data :
        IF Len(data) = 0 THEN I(15) ELSE AvgWaste(data))

\* external_data.find(e => e.date === date)?.field || otherwise
ExternalOr(date, field, otherwise) ==
    With(SelectSeq(external_data, LAMBDA e : e.date = date), LAMBDA found :
        IF Len(found) = 0 \/ found[1][field].n = 0 THEN otherwise ELSE found[1][field])

prepareFeatures(input, historical_data) ==
    << I(getDay(input.date)),
       I(Month(input.date)),
       I(encodeWeather(OrElse(input.weather, "sunny"))),
       I(IF input.temperature = 0 THEN 65 ELSE input.temperature),
       I(encodeSpecialEvent(OrElse(input.special_event, "none"))),
       Q(IF input.estimated_students = 0 THEN 1000 ELSE input.estimated_students, 1000),
       getAverageWastePercentage(input.menu_item),
       getSeasonalFactor(input.menu_item, Month(input.date)),
       ExternalOr(input.date, "student_population_factor", I(1)),
       ExternalOr(input.date, "precipitation_inches", I(0)) >>

prepareHistoricalFeatures(record) ==
    << I(getDay(record.date)),
       I(Month(record.date)),
       I(encodeWeather(record.weather)),
       I(record.temperature_f),
       I(encodeSpecialEvent(record.special_event)),
       Q(record.estimated_students, 1000),
       getHistoricalAverage(record.menu_item, record.date),
       getSeasonalFactor(record.menu_item, Month(record.date)),
       ExternalOr(record.date, "student_population_factor", I(1)),
       ExternalOr(record.date, "precipitation_inches", I(0)) >>

getCategoryModel(category) ==
    [coefficients |-> <<AvgWaste(SelectSeq(production_data, LAMBDA d : d.category = category))>>,
     r2 |-> Q(1, 2),
     residuals |-> <<I(0)>>,
     accuracy |-> Q(7, 10),
     feature_importance |-> <<>>]

\* Statistics.multipleRegression, the residuals, crossValidateModel and
\* calculateFeatureImportance are functions of the training set (X, y) and of
\* nothing else: the fitted model is represented by the training set that
\* determines its coefficients, r2, residuals, accuracy and feature_importance
trainModel(menu_item) ==
    With(getMenuItemData(menu_item), LAMBDA menu_item_data :
        IF Len(menu_item_data) < 5
        THEN getCategoryModel(IF Len(menu_item_data) = 0 THEN "Entree"
                              ELSE menu_item_data[1].category)
        ELSE [X |-> [i \in 1..Len(menu_item_data) |->
                        prepareHistoricalFeatures(menu_item_data[i])],
              y |-> WastePercentages(menu_item_data)])

\* variant: one key for every menu item
cache_key_Shared(menu_item) == <<"model_">>

\* `model_${menu_item}`
cache_key(menu_item) == <<"model_", menu_item>>

\* Map.prototype.set
MapSet(map, key, value) ==
    [k \in DOMAIN map \cup {key} |-> IF k = key THEN value ELSE map[k]]

\* variant: the model is trained and stored without looking into the cache
getOrTrainModel_Always(cache, menu_item) ==
    With(trainModel(menu_item), LAMBDA model :
        [model |-> model, cache |-> MapSet(cache, cache_key(menu_item), model),
         trained |-> 1])

\* the model returned, the cache left behind and the number of trainModel runs
getOrTrainModel(cache, menu_item) ==
    IF cache_key(menu_item) \in DOMAIN cache
    THEN [model |-> cache[cache_key(menu_item)], cache |-> cache, trained |-> 0]
    ELSE With(trainModel(menu_item), LAMBDA model :
            [model |-> model, cache |-> MapSet(cache, cache_key(menu_item), model),
             trained |-> 1])

ForecastModel_analyzeFactorInfluence(input, historical_data) ==
    With(WastePercentages(historical_data), LAMBDA waste_data :
        [weather_impact |-> Impact(correlation(
             [i \in 1..Len(historical_data) |-> encodeWeather(historical_data[i].weather)],
             waste_data)),
         day_of_week_impact |-> Impact(correlation(
             [i \in 1..Len(historical_data) |-> getDay(historical_data[i].date)],
             waste_data)),
         seasonal_impact |-> Impact(correlation(
             [i \in 1..Len(historical_data) |-> Month(historical_data[i].date)],
             waste_data)),
         event_impact |-> Impact(correlation(
             [i \in 1..Len(historical_data) |->
                 encodeSpecialEvent(historical_data[i].special_event)],
             waste_data))])

\* the average of a category without rows is 0 / 0, and so is what is computed
\* from it
ForecastModel_predictFromCategory(input) ==
    With(getMenuItemData(input.menu_item), LAMBDA found :
    With(IF Len(found) = 0 THEN "Entree" ELSE found[1].category, LAMBDA category :
    With(AvgWaste(SelectSeq(production_data, LAMBDA d : d.category = category)),
         LAMBDA category_avg :
        [predicted_waste |-> IF category_avg = NaN THEN NaN
                             ELSE RMul(RDiv(category_avg, I(100)),
                                       I(input.quantity_to_prepare)),
         predicted_waste_percentage |-> category_avg,
         confidence_interval |-> [lower |-> I(-5), upper |-> I(5)],
         recommended_quantity |-> RMul(I(input.quantity_to_prepare), Q(95, 100)),
         potential_savings |-> I(0),
         model_accuracy |-> Q(7, 10),
         factors_influence |-> [weather_impact |-> FZero, day_of_week_impact |-> FZero,
                                seasonal_impact |-> FZero, event_impact |-> FZero]])))

\* the result of predict, the cache it leaves behind and the trainModel runs it
\* made.  On the fitted path predicted_waste_percentage, predicted_waste, the
\* confidence_interval, recommended_quantity, potential_savings and
\* model_accuracy are computed from features, the model of line 241, the model
\* calculateConfidenceInterval fetches, quantity_to_prepare and
\* current_avg_waste and from nothing else: the result keeps these arguments
ForecastModel_predict(cache, input) ==
    With(getMenuItemData(input.menu_item), LAMBDA menu_item_data :
    IF Len(menu_item_data) < 5
    THEN [out |-> ForecastModel_predictFromCategory(input), cache |-> cache, trained |-> 0]
    ELSE
    With(getOrTrainModel(cache, input.menu_item), LAMBDA fetched :
    With(getOrTrainModel(fetched.cache, input.menu_item), LAMBDA again :
        [out |-> [features |-> prepareFeatures(input, menu_item_data),
                  model |-> fetched.model,
                  interval_model |-> again.model,
                  quantity_to_prepare |-> input.quantity_to_prepare,
                  current_avg_waste |-> getAverageWastePercentage(input.menu_item),
                  factors_influence |->
                      ForecastModel_analyzeFactorInfluence(input, menu_item_data)],
         cache |-> again.cache,
         trained |-> fetched.trained + again.trained])))

\* x / 0 for x > 0
Infinity == [n |-> 1, d |-> 0]

\* features.reduce((sum, feature, i) => sum + feature * coefficients[i], 0); a
\* product with NaN is NaN, also the one of 0
predictWithCoefficients(features, coefficients) ==
    IF \E i \in 1..Len(features) : features[i] = NaN \/ coefficients[i] = NaN THEN NaN
    ELSE RSumSeq([i \in 1..Len(features) |-> RMul(features[i], coefficients[i])])

\* Math.max(0, Math.min(100, prediction)): NaN when the prediction is
predictWastePercentage(features, model) ==
    With(predictWithCoefficients(<<I(1)>> \o features, model.coefficients),
         LAMBDA prediction :
        IF prediction = NaN THEN NaN ELSE RMax(I(0), RMin(I(100), prediction)))

\* NaN > 5 is false; 95 / 0 is Infinity, and so is Math.round of a multiple of it
optimizeQuantity(input, predicted_waste_percentage) ==
    IF predicted_waste_percentage # NaN /\ RLt(I(5), predicted_waste_percentage)
    THEN IF predicted_waste_percentage = I(100) THEN Infinity
         ELSE I(Round(RMul(I(input.quantity_to_prepare),
                           RDiv(I(100 - 5), RSub(I(100), predicted_waste_percentage)))))
    ELSE I(Round(I(input.quantity_to_prepare)))

\* what predict computes on the fitted path from the features of the input, the
\* coefficients of the model and quantity_to_prepare
FittedForecast(features, model, input) ==
    With(predictWastePercentage(features, model), LAMBDA predicted_waste_percentage :
        [predicted_waste_percentage |-> predicted_waste_percentage,
         predicted_waste |->
             IF predicted_waste_percentage = NaN THEN NaN
             ELSE RMul(RDiv(predicted_waste_percentage, I(100)),
                       I(input.quantity_to_prepare)),
         recommended_quantity |-> optimizeQuantity(input, predicted_waste_percentage)])

\* ------------------------------------------------------- CSV (parseCSVLine)
\* a text is the sequence of its characters; a word without comma, quote, space
\* or line break counts as one character
Comma == ","
Quote == "\""
Space == " "
LineBreak == "\n"

\* String.prototype.trim
RECURSIVE trim(_)
trim(s) ==
    IF s = <<>> THEN s
    ELSE IF s[1] \in {Space, LineBreak} THEN trim(Tail(s))
    ELSE IF s[Len(s)] \in {Space, LineBreak} THEN trim(SubSeq(s, 1, Len(s) - 1))
    ELSE s

\* one turn of the for loop of parseCSVLine on its locals
ParseStep(st, char) ==
    IF char = Quote THEN [st EXCEPT !.inQuotes = ~@]
    ELSE IF char = Comma /\ ~st.inQuotes
    THEN [st EXCEPT !.result = Append(@, trim(st.current)), !.current = <<>>]
    ELSE [st EXCEPT !.current = Append(@, char)]

\* variant: a quote is kept in the field
ParseStep_KeepQuote(st, char) ==
    IF char = Quote THEN [st EXCEPT !.inQuotes = ~@, !.current = Append(@, char)]
    ELSE IF char = Comma /\ ~st.inQuotes
    THEN [st EXCEPT !.result = Append(@, trim(st.current)), !.current = <<>>]
    ELSE [st EXCEPT !.current = Append(@, char)]

\* variant: the record store's copy keeps the quotes
DataLoader_parseCSVLine_KeepQuotes(line) ==
    LET RECURSIVE loop(_)
        loop(k) == IF k = 0 THEN [result |-> <<>>, current |-> <<>>, inQuotes |-> FALSE]
                   ELSE ParseStep_KeepQuote(loop(k - 1), line[k])
    IN  Append(loop(Len(line)).result, trim(loop(Len(line)).current))

\* the copy of the record store
DataLoader_parseCSVLine(line) ==
    LET RECURSIVE loop(_)
        loop(k) == IF k = 0 THEN [result |-> <<>>, current |-> <<>>, inQuotes |-> FALSE]
                   ELSE ParseStep(loop(k - 1), line[k])
    IN  Append(loop(Len(line)).result, trim(loop(Len(line)).current))

\* the copy of the upload service
UploadService_parseCSVLine(line) ==
    LET RECURSIVE loop(_)
        loop(k) == IF k = 0 THEN [result |-> <<>>, current |-> <<>>, inQuotes |-> FALSE]
                   ELSE ParseStep(loop(k - 1), line[k])
    IN  Append(loop(Len(line)).result, trim(loop(Len(line)).current))

\* ------------------------------------------- uploads (UploadService.validateCsv)
\* the words of the uploaded texts: a date, and column names
DateWord == "2024-06-03"

\* String.prototype.toLowerCase, on a character and on a text
LowerChar(c) == IF c = "DATE" THEN "date" ELSE c
toLowerCase(s) == [i \in 1..Len(s) |-> LowerChar(s[i])]

\* String.prototype.split('\n')
RECURSIVE split(_)
split(s) ==
    IF \A i \in 1..Len(s) : s[i] # LineBreak THEN <<s>>
    ELSE LET k == CHOOSE i \in 1..Len(s) :
                      s[i] = LineBreak /\ \A j \in 1..(i - 1) : s[j] # LineBreak
         IN  <<SubSeq(s, 1, k - 1)>> \o split(SubSeq(s, k + 1, Len(s)))

\* h.includes(word) and word.includes(h) for a column name of the patterns: the
\* words of the texts are no parts of one another
includes(h, word) == word \in Range(h)
includedIn(h, word) == h = <<>> \/ h = <<word>>

patterns ==
    <<[category |-> "daily_production",
       required |-> <<"date", "menu_item", "quantity">>,
       optional |-> <<"category", "waste", "served", "weather">>,
       keywords |-> <<"production", "menu", "waste", "served", "quantity">>],
      [category |-> "pickup_operations",
       required |-> <<"date", "location", "quantity">>,
       optional |-> <<"pickup", "destination", "partner", "driver", "cost">>,
       keywords |-> <<"pickup", "destination", "partner", "transport", "collection">>],
      [category |-> "external_factors",
       required |-> <<"date">>,
       optional |-> <<"weather", "temperature", "holiday", "event", "student">>,
       keywords |-> <<"weather", "temperature", "holiday", "event", "external">>],
      [category |-> "menu_planning",
       required |-> <<"dish", "category">>,
       optional |-> <<"cost", "prep", "popularity", "nutrition", "allergen">>,
       keywords |-> <<"menu", "dish", "recipe", "ingredient", "allergen">>],
      [category |-> "impact_tracking",
       required |-> <<"date">>,
       optional |-> <<"cost", "saved", "rescued", "co2", "meals", "community">>,
       keywords |-> <<"impact", "saved", "rescued", "co2", "meals", "community">>]>>

\* the confidence of calculatePatternScore
calculatePatternScore(headers, pattern) ==
    LET matched(words) ==
            Cardinality({k \in 1..Len(words) :
                \E i \in 1..Len(headers) :
                    includes(headers[i], words[k]) \/ includedIn(headers[i], words[k])})
        keyword_matches ==
            Cardinality({k \in 1..Len(pattern.keywords) :
                \E i \in 1..Len(headers) : includes(headers[i], pattern.keywords[k])})
        score ==
            RAdd(RAdd(RMul(Q(matched(pattern.required), Len(pattern.required)), Q(6, 10)),
                      RMul(Q(matched(pattern.optional), Len(pattern.optional)), Q(3, 10))),
                 RMul(Q(keyword_matches, Len(pattern.keywords)), Q(1, 10)))
    IN  RMin(score, I(1))

\* categorizeCsv: the first pattern of the greatest confidence above 0
categorizeCsv(csvContent) ==
    LET lines == split(trim(csvContent))
        parsed == UploadService_parseCSVLine(lines[1])
        headers == [i \in 1..Len(parsed) |-> trim(toLowerCase(parsed[i]))]
        RECURSIVE best(_)
        best(k) ==
            IF k = 0 THEN [suggested_category |-> "unknown", confidence |-> I(0)]
            ELSE LET sofar == best(k - 1)
                     confidence == calculatePatternScore(headers, patterns[k])
                 IN  IF RLt(sofar.confidence, confidence)
                     THEN [suggested_category |-> patterns[k].category,
                           confidence |-> confidence]
                     ELSE sofar
    IN  best(Len(patterns))

\* new Date(dateString) is a date; parseFloat(numberString) is a number
isValidDate(dateString) ==
    /\ trim(dateString) # <<>>
    /\ dateString = <<DateWord>>
isValidNumber(numberString) ==
    /\ trim(numberString) # <<>>
    /\ trim(numberString)[1] = DateWord

validateProductionRow(values, headers) ==
    LET dated == {i \in 1..Len(headers) : includes(toLowerCase(headers[i]), "date")}
        date_index == IF dated = {} THEN 0 ELSE CHOOSE i \in dated : \A j \in dated : i <= j
        quantity_indices ==
            {i \in 1..Len(headers) : \/ includes(toLowerCase(headers[i]), "quantity")
                                     \/ includes(toLowerCase(headers[i]), "lbs")}
    IN  /\ date_index > 0 => isValidDate(values[date_index])
        /\ \A i \in quantity_indices : values[i] # <<>> => isValidNumber(values[i])

validateRowByCategory(values, headers, category) ==
    LET non_empty_values ==
            Cardinality({i \in 1..Len(values) : values[i] # <<>> /\ trim(values[i]) # <<>>})
    IN  IF 2 * non_empty_values < Len(headers) THEN FALSE
        ELSE IF category = "daily_production" THEN validateProductionRow(values, headers)
        ELSE TRUE

\* variant: a line of another column count is warned about and not counted
validateLine_Uncounted(counts, line, index, headers, detected_format) ==
    LET values == UploadService_parseCSVLine(line)
    IN  IF Len(values) # Len(headers)
        THEN [counts EXCEPT !.miscounted_lines = @ \cup {index + 2}]
        ELSE IF validateRowByCategory(values, headers, detected_format)
        THEN [counts EXCEPT !.valid_rows = @ + 1]
        ELSE [counts EXCEPT !.invalid_rows = @ + 1]

\* the callback of dataLines.forEach in validateCsv, on the counters
validateLine(counts, line, index, headers, detected_format) ==
    LET values == UploadService_parseCSVLine(line)
    IN  IF Len(values) # Len(headers)
        THEN [counts EXCEPT !.miscounted_lines = @ \cup {index + 2},
                            !.invalid_rows = @ + 1]
        ELSE IF validateRowByCategory(values, headers, detected_format)
        THEN [counts EXCEPT !.valid_rows = @ + 1]
        ELSE [counts EXCEPT !.invalid_rows = @ + 1]

\* the errors of the basic validation
BasicErrors(lines, headers) ==
    (IF Len(lines) < 2
     THEN <<"CSV must contain at least a header row and one data row">> ELSE <<>>)
    \o (IF Len(headers) = 0 THEN <<"No headers detected in CSV">> ELSE <<>>)

\* validateCsv; input.expected_category may be missing
validateCsv(input) ==
    LET lines == split(trim(input.csvContent))
        headers == UploadService_parseCSVLine(lines[1])
        dataLines == Tail(lines)
        given == "expected_category" \in DOMAIN input /\ input.expected_category # ""
        categorization == categorizeCsv(input.csvContent)
        detected_format ==
            IF given THEN input.expected_category ELSE categorization.suggested_category
        low == ~given /\ RLt(categorization.confidence, Q(7, 10))
        errors == BasicErrors(lines, headers)
        RECURSIVE forEach(_)
        forEach(k) ==
            IF k = 0 THEN [valid_rows |-> 0, invalid_rows |-> 0, miscounted_lines |-> {}]
            ELSE validateLine(forEach(k - 1), dataLines[k], k - 1, headers, detected_format)
        counts == forEach(Len(dataLines))
    IN  [isValid |-> errors = <<>> /\ counts.invalid_rows = 0,
         errors |-> errors,
         warnings |-> [low_confidence |-> low, miscounted_lines |-> counts.miscounted_lines],
         detected_format |-> detected_format,
         statistics |-> [total_rows |-> Len(dataLines),
                         valid_rows |-> counts.valid_rows,
                         invalid_rows |-> counts.invalid_rows,
                         columns_detected |-> headers]]

\* ----------------------------------- impact (ImpactService.calculateImpact)
\* the fields of ImpactMetrics and, for each, the field of ImpactTracking it is
\* computed from, its trend multiplier and its scenario multiplier
MetricNames ==
    {"food_rescued_lbs", "meals_provided", "co2_emissions_avoided_lbs", "money_saved",
     "waste_disposal_cost_avoided", "volunteer_hours", "operational_savings",
     "community_impact_score"}

DailyField(metric) ==
    CASE metric = "food_rescued_lbs" -> "food_rescued_lbs_daily"
      [] metric = "meals_provided" -> "meals_provided_to_community_daily"
      [] metric = "co2_emissions_avoided_lbs" -> "co2_emissions_avoided_lbs_daily"
      [] metric = "money_saved" -> "money_saved_daily"
      [] metric = "waste_disposal_cost_avoided" -> "waste_disposal_cost_avoided_daily"
      [] metric = "volunteer_hours" -> "volunteer_hours_daily"
      [] metric = "operational_savings" -> "operational_savings_daily"
      [] metric = "community_impact_score" -> "community_impact_score_daily"

TrendOf(metric) ==
    CASE metric = "food_rescued_lbs" -> "food_rescued"
      [] metric = "meals_provided" -> "meals"
      [] metric = "co2_emissions_avoided_lbs" -> "co2"
      [] metric = "money_saved" -> "money"
      [] metric = "waste_disposal_cost_avoided" -> "waste_cost"
      [] metric = "volunteer_hours" -> "volunteer"
      [] metric = "operational_savings" -> "operational"
      [] metric = "community_impact_score" -> "community"

ScenarioOf(metric) ==
    CASE metric \in {"money_saved", "operational_savings"} -> "cost_optimization"
      [] metric = "volunteer_hours" -> "pickup_efficiency"
      [] metric = "community_impact_score" -> "none"
      [] OTHER -> "waste_reduction"

getDefaultMetrics ==
    [metric \in MetricNames |->
        CASE metric = "food_rescued_lbs" -> I(15000)
          [] metric = "meals_provided" -> I(18000)
          [] metric = "co2_emissions_avoided_lbs" -> I(48000)
          [] metric = "money_saved" -> I(52500)
          [] metric = "waste_disposal_cost_avoided" -> I(4500)
          [] metric = "volunteer_hours" -> I(1200)
          [] metric = "operational_savings" -> I(8000)
          [] metric = "community_impact_score" -> I(75)]

\* the daily averages, by metric
calculateDailyAverages(data) ==
    [metric \in MetricNames |->
        Q(SumSeq([i \in 1..Len(data) |-> data[i][DailyField(metric)]]), Len(data))]

\* baseline_date "" is an absent baseline
calculateCurrentMetrics(baseline_date) ==
    With(IF baseline_date # ""
         THEN SelectSeq(impact_data, LAMBDA d :
                  /\ DayNumber(d.date) >= DayNumber(baseline_date) - 30
                  /\ DayNumber(d.date) <= DayNumber(baseline_date))
         ELSE Last(impact_data, 30),
         LAMBDA relevant_data :
        IF Len(relevant_data) = 0 THEN getDefaultMetrics
        ELSE With(calculateDailyAverages(relevant_data), LAMBDA daily_averages :
                [metric \in MetricNames |-> RMul(daily_averages[metric], I(365))]))

\* variant: the ratio is not clamped
calculateTrendRatio_Unclamped(recent, older) ==
    IF older.n = 0 THEN I(1)
    ELSE RDiv(recent, older)

calculateTrendRatio(recent, older) ==
    IF older.n = 0 THEN I(1)
    ELSE RMax(Q(8, 10), RMin(Q(13, 10), RDiv(recent, older)))

\* s.slice(-28, -14)
OlderSlice(s) ==
    IF Len(s) <= 14 THEN <<>>
    ELSE SubSeq(s, IF Len(s) <= 28 THEN 1 ELSE Len(s) - 27, Len(s) - 14)

\* the trend multipliers, by metric
calculateTrendMultipliers ==
    With(Last(impact_data, 14), LAMBDA recent_data :
    With(OlderSlice(impact_data), LAMBDA older_data :
        IF Len(recent_data) = 0 \/ Len(older_data) = 0
        THEN [metric \in MetricNames |->
                CASE TrendOf(metric) \in {"food_rescued", "meals", "co2"} -> Q(102, 100)
                  [] TrendOf(metric) = "volunteer" -> I(1)
                  [] OTHER -> Q(101, 100)]
        ELSE With(calculateDailyAverages(recent_data), LAMBDA recent_avg :
             With(calculateDailyAverages(older_data), LAMBDA older_avg :
                [metric \in MetricNames |->
                    calculateTrendRatio(recent_avg[metric], older_avg[metric])]))))

\* variant: the target is added as it is, not as a percentage
calculateScenarioMultipliers_Whole(scenarios) ==
    IF ~scenarios.provided
    THEN [waste_reduction |-> I(1), pickup_efficiency |-> I(1),
          cost_optimization |-> I(1), none |-> I(1)]
    ELSE [waste_reduction |-> I(1 + scenarios.waste_reduction_target),
          pickup_efficiency |-> I(1 + scenarios.pickup_efficiency_improvement),
          cost_optimization |-> I(1 + scenarios.cost_optimization_target),
          none |-> I(1)]

\* intervention_scenarios with provided = FALSE is an absent object
calculateScenarioMultipliers(scenarios) ==
    IF ~scenarios.provided
    THEN [waste_reduction |-> I(1), pickup_efficiency |-> I(1),
          cost_optimization |-> I(1), none |-> I(1)]
    ELSE [waste_reduction |-> RAdd(I(1), Q(scenarios.waste_reduction_target, 100)),
          pickup_efficiency |->
              RAdd(I(1), Q(scenarios.pickup_efficiency_improvement, 100)),
          cost_optimization |-> RAdd(I(1), Q(scenarios.cost_optimization_target, 100)),
          none |-> I(1)]

period_multipliers(projection_period) ==
    CASE projection_period = "week" -> Q(1, 52)
      [] projection_period = "month" -> Q(1, 12)
      [] projection_period = "quarter" -> Q(1, 4)
      [] projection_period = "year" -> I(1)

projectFutureImpact(current, input) ==
    With(calculateTrendMultipliers, LAMBDA trend_multipliers :
    With(calculateScenarioMultipliers(input.intervention_scenarios),
         LAMBDA scenario_multipliers :
        [metric \in MetricNames |->
            RMul(RMul(RMul(current[metric], period_multipliers(input.projection_period)),
                      trend_multipliers[metric]),
                 scenario_multipliers[ScenarioOf(metric)])]))

calculateImprovementPotential(current, projected) ==
    [metric \in MetricNames |-> RSub(projected[metric], current[metric])]

\* money_saved + waste_disposal_cost_avoided + operational_savings
Savings(metrics) ==
    RAdd(RAdd(metrics["money_saved"], metrics["waste_disposal_cost_avoided"]),
         metrics["operational_savings"])

\* Math.round(x * 100) / 100
Round2(x) == Q(Round(RMul(x, I(100))), 100)

calculateFinancialSummary(current, projected) ==
    With(Savings(projected), LAMBDA total_savings :
    With(RSub(total_savings, Savings(current)), LAMBDA improvement :
    With(RMax(I(5000), RMul(improvement, Q(1, 10))), LAMBDA implementation_cost :
        [total_cost_savings |-> total_savings,
         roi_percentage |->
             Round2(RMul(RDiv(improvement, implementation_cost), I(100))),
         payback_period_months |->
             Round2(IF improvement.n > 0
                    THEN RDiv(implementation_cost, RDiv(improvement, I(12)))
                    ELSE I(0))])))

calculateEnvironmentalSummary(metrics) ==
    [co2_reduction_equivalent |->
         << Round(RMul(metrics["co2_emissions_avoided_lbs"], Q(45, 100))),
            " miles of driving or ",
            Round(RDiv(metrics["co2_emissions_avoided_lbs"], I(48))),
            " trees planted" >>,
     water_saved_gallons |-> Round(RMul(metrics["food_rescued_lbs"], I(25))),
     landfill_diversion_lbs |-> metrics["food_rescued_lbs"]]

calculateSocialSummary(metrics) ==
    [people_fed |-> Round(RDiv(metrics["meals_provided"], I(3 * 365))),
     community_partnerships |->
         Cardinality({pickup_data[i].destination_partner : i \in 1..Len(pickup_data)}),
     volunteer_engagement_hours |-> Round(metrics["volunteer_hours"])]

calculateImpact(input) ==
    With(calculateCurrentMetrics(input.baseline_date), LAMBDA current_metrics :
    With(projectFutureImpact(current_metrics, input), LAMBDA projected_metrics :
        [current_metrics |-> current_metrics,
         projected_metrics |-> projected_metrics,
         improvement_potential |->
             calculateImprovementPotential(current_metrics, projected_metrics),
         financial_summary |->
             calculateFinancialSummary(current_metrics, projected_metrics),
         environmental_summary |-> calculateEnvironmentalSummary(projected_metrics),
         social_summary |-> calculateSocialSummary(projected_metrics)]))

getDataForPeriod(period) == SelectSeq(impact_data, LAMBDA d : StartsWith(d.date, period))

calculatePeriodMetrics(data) ==
    IF Len(data) = 0 THEN getDefaultMetrics
    ELSE [metric \in MetricNames |->
            I(SumSeq([i \in 1..Len(data) |-> data[i][DailyField(metric)]]))]

calculatePeriodTrend(period) ==
    With(getDataForPeriod(period), LAMBDA period_data :
        IF Len(period_data) < 7 THEN "stable"
        ELSE With(Q(SumSeq([i \in 1..7 |-> period_data[i].community_impact_score_daily]), 7),
                  LAMBDA first_avg :
             With(Q(SumSeq([i \in 1..7 |->
                      Last(period_data, 7)[i].community_impact_score_daily]), 7),
                  LAMBDA last_avg :
                IF RLt(RMul(first_avg, Q(105, 100)), last_avg) THEN "improving"
                ELSE IF RLt(last_avg, RMul(first_avg, Q(95, 100))) THEN "declining"
                ELSE "stable")))

\* Math.round((Math.random() - 0.5) * 40 * 100) / 100, random being the number
\* that Math.random() returned
calculatePercentageChange(period, random) ==
    Q(Round(RMul(RMul(RSub(random, Q(1, 2)), I(40)), I(100))), 100)

\* randoms[i] is the number that Math.random() returned for the i-th period
getHistoricalComparison(periods, randoms) ==
    [i \in 1..Len(periods) |->
        [period |-> periods[i],
         metrics |-> calculatePeriodMetrics(getDataForPeriod(periods[i])),
         trend |-> calculatePeriodTrend(periods[i]),
         percentage_change |-> calculatePercentageChange(periods[i], randoms[i])]]

\* ------------------------------------------------------------- requests
RECURSIVE SeqsUpTo(_, _)
SeqsUpTo(S, n) ==
    IF n = 0 THEN {<<>>}
    ELSE LET shorter == SeqsUpTo(S, n - 1)
         IN  shorter \cup {Append(q, x) : q \in {t \in shorter : Len(t) = n - 1}, x \in S}

\* the lines given to parseCSVLine
LineChars == {Comma, Quote, Space, "x"}
Lines == SeqsUpTo(LineChars, MaxLine)

\* the lines of the uploaded texts: column names, rows for them, rows of other
\* column counts, an empty row, a blank line, a quoted comma
CsvLines ==
    {<<"date", Comma, "menu_item", Comma, "quantity">>,
     <<"DATE", Comma, "quantity">>,
     <<"x", Comma, "x">>,
     <<DateWord, Comma, "x", Comma, DateWord>>,
     <<"x", Comma, "x", Comma, DateWord>>,
     <<DateWord, Comma, "x", Comma, "x">>,
     <<DateWord, Comma, Space, DateWord>>,
     <<Comma>>,
     <<>>,
     <<Quote, "x", Comma, "x", Quote, Comma, DateWord>>}

\* Array.prototype.join('\n')
RECURSIVE join(_)
join(lines) ==
    IF lines = <<>> THEN <<>>
    ELSE IF Len(lines) = 1 THEN lines[1]
    ELSE lines[1] \o <<LineBreak>> \o join(Tail(lines))

\* the texts: a first line and up to MaxDataLines more
CsvTexts == {join(lines) : lines \in SeqsUpTo(CsvLines, 1 + MaxDataLines)}

\* the lines of the files sent to POST /api/upload: valid rows, an invalid row,
\* column names alone, a row of another column count
UploadedLines ==
    {<<<<"date", Comma, "menu_item", Comma, "quantity">>,
       <<DateWord, Comma, "x", Comma, DateWord>>>>,
     <<<<"x", Comma, "x">>, <<Quote, "x", Comma, "x", Quote, Comma, DateWord>>, <<>>>>,
     <<<<"date", Comma, "menu_item", Comma, "quantity">>,
       <<"x", Comma, "x", Comma, DateWord>>>>,
     <<<<"date", Comma, "menu_item", Comma, "quantity">>>>,
     <<<<"x", Comma, "x">>, <<DateWord>>>>}

ValidateInputs ==
    [csvContent : CsvTexts]
    \cup [csvContent : CsvTexts,
          expected_category : {"daily_production", "pickup_operations", "unknown"}]

\* the windows a caller supplies, earliest_pickup <= latest_pickup
TimeWindows ==
    {[earliest_pickup |-> Time(0, 8, 0, 0), latest_pickup |-> Time(1, 8, 0, 0)],
     [earliest_pickup |-> Time(1, 0, 0, 0), latest_pickup |-> Time(1, 2, 0, 0)],
     [earliest_pickup |-> Time(0, 6, 0, 0), latest_pickup |-> Time(0, 8, 0, 0)]}

\* a location of the request and its time_constraints, which are optional
OptimalTimeInputs ==
    {[location |-> l] : l \in {"North", "South", "Hall"}}
        \cup {[location |-> l, time_constraints |-> w] :
                 l \in {"North", "South", "Hall"}, w \in TimeWindows}

TrackerInputs ==
    [date : Dates,
     available_locations : SeqsUpTo({"North", "Hall"}, MaxLocs) \ {<<>>},
     available_drivers : {SubSeq(Drivers, 1, k) : k \in 1..MaxDrivers},
     priority_destinations : {<<>>, <<"shelter">>}]

Students == {44, 1000}
Budgets == {0, 80, 2000}
Categories == {"breakfast", "lunch", "dinner"}

\* a list that names one category four times: the validation asks for a non-empty
\* array and nothing more
RepeatedTargets == <<"lunch", "lunch", "lunch", "lunch">>

\* the body of POST /api/planner that passed the validation of required fields;
\* budget_constraint 0 stands for an absent budget as well (both are falsy)
PlannerInputs ==
    [date : Dates,
     estimated_students : Students,
     budget_constraint : Budgets,
     avoid_items : SeqsUpTo({"Chicken Bowl", "X"}, MaxAvoid),
     target_categories : (SeqsUpTo(Categories, MaxCats) \ {<<>>}) \cup {RepeatedTargets}]

SuggestionConstraints ==
    [max_prep_time : {0, 1}, cost_limit : {0, 3},
     dietary_restrictions : {<<>>, <<"nuts">>}]

\* two samples of the same length
RECURSIVE SeqsOf(_, _)
SeqsOf(S, n) == IF n = 0 THEN {<<>>} ELSE {Append(q, x) : q \in SeqsOf(S, n - 1), x \in S}
SampleValues == {5, 7, 10, 12}
SampleInputs ==
    UNION {[x : SeqsOf(SampleValues, n), y : SeqsOf(SampleValues, n)] : n \in 1..MaxSamples}

\* the arrays given to Statistics.summary: non-empty
SummaryInputs == UNION {SeqsOf(SampleValues, n) : n \in 1..MaxSamples}

\* the series y = a * x + b given to Statistics.linearRegression
Slopes == {0, 2}
Intercepts == {3}
Line(x, a, b) == [i \in 1..Len(x) |-> a * x[i] + b]
LinearInputs ==
    {[x |-> x, y |-> Line(x, a, b)] : x \in SummaryInputs, a \in Slopes, b \in Intercepts}

\* the body of POST /api/forecast that passed the validation of required fields;
\* "" and 0 stand for an absent optional field (both are falsy as well)
ForecastItems == {"Pasta", "Chicken Bowl", "Rice", "Tofu"}
ForecastInputs ==
    [menu_item : ForecastItems,
     date : Dates,
     weather : {"", "rainy"},
     temperature : {0},
     special_event : {"", "holiday"},
     estimated_students : {0, 1500},
     quantity_to_prepare : {100, 200}]

\* the features of an input and the coefficients of a fitted model.
\* solveLinearSystem divides by its pivots unguarded: the coefficients are finite
\* numbers of either sign, or NaN, which is what the back substitution leaves
\* (0 / 0) when a feature column of the training set is all zeros
FeatureValues == {I(0), I(3)}
CoefficientValues == {I(-20), I(0), I(40), NaN}
FittedInputs ==
    [features : SeqsOf(FeatureValues, MaxFeatures),
     coefficients : SeqsOf(CoefficientValues, MaxFeatures + 1),
     quantity_to_prepare : {100, 200}]

\* the body of POST /api/impact/calculate that passed the validation
NoScenarios ==
    [provided |-> FALSE, waste_reduction_target |-> 0,
     pickup_efficiency_improvement |-> 0, cost_optimization_target |-> 0]
ImpactInputs ==
    [projection_period : {"week", "month", "quarter", "year"},
     intervention_scenarios :
         {NoScenarios,
          [provided |-> TRUE, waste_reduction_target |-> 10,
           pickup_efficiency_improvement |-> 0, cost_optimization_target |-> 5]},
     baseline_date : {"", "2024-06-03", "2024-05-20", "2024-05-01"}]

\* the periods of GET /api/impact/comparison, the first being the default
ComparisonInputs == {<<"2024-01", "2024-02", "2024-03">>, <<"2024-05", "2024-06">>}

\* numbers that Math.random() may return
Randoms == {I(0), Q(1, 2), Q(3, 4)}

\* the calls that clients make at the same time
ConcurrentInputs ==
    {input \in ForecastInputs :
        /\ input.date = "2024-06-03" /\ input.weather = ""
        /\ input.special_event = "" /\ input.estimated_students = 0
        /\ input.quantity_to_prepare = 100}

Clients == 1..MaxClients
NoCall == [phase |-> "idle"]

Idle == req = NoReq /\ res = NoRes

\* a request arrives at an idle service
Request(op, inputs) ==
    /\ Idle
    /\ \E input \in inputs : req' = [op |-> op, input |-> input]
    /\ prev' = NoRes
    /\ UNCHANGED <<store, database, forecaster, now, res>>

\* the same request is sent again
Repeat ==
    /\ req = NoReq /\ res # NoRes /\ prev = NoRes
    /\ req' = [op |-> res.op, input |-> res.input]
    /\ prev' = res
    /\ res' = NoRes
    /\ UNCHANGED <<store, database, forecaster, now>>

\* the response is delivered and forgotten
Respond ==
    /\ req = NoReq /\ res # NoRes
    /\ res' = NoRes /\ prev' = NoRes
    /\ UNCHANGED <<store, database, forecaster, now, req>>

\* time passes while a request waits
Tick ==
    /\ req # NoReq
    /\ now < MaxClock
    /\ now' = now + 1
    /\ UNCHANGED <<store, database, forecaster, req, res, prev>>

\* the handler answers the pending request with out
Answer(out) ==
    /\ res' = [op |-> req.op, input |-> req.input, out |-> out]
    /\ req' = NoReq

ReqOptimizePickups == Request("optimizePickups", TrackerInputs)

OptimizePickups ==
    /\ req.op = "optimizePickups"
    /\ Answer(optimizePickups(req.input, now))
    /\ UNCHANGED <<store, database, forecaster, now, prev>>

ReqOptimalTime == Request("calculateOptimalTime", OptimalTimeInputs)

\* calculateOptimalTime as generatePickupSuggestions calls it for a location
OptimalTime ==
    /\ req.op = "calculateOptimalTime"
    /\ Answer(calculateOptimalTime(analyzeLocationPatterns(req.input.location),
                                   req.input))
    /\ UNCHANGED <<store, database, forecaster, now, prev>>

ReqOptimizeMenu == Request("optimizeMenu", PlannerInputs)

OptimizeMenu ==
    /\ req.op = "optimizeMenu"
    /\ Answer(optimizeMenu(req.input))
    /\ UNCHANGED <<store, database, forecaster, now, prev>>

\* a catalog row and the date of the plan
ScoreInputs == [item : Range(Catalog) \cup Range(CatalogX), date : Dates]

ReqScoreMenuItem == Request("scoreMenuItem", ScoreInputs)

\* scoreMenuItem(item, input) as optimizeMenu calls it for the rows of the catalog
ScoreMenuItem ==
    /\ req.op = "scoreMenuItem"
    /\ Answer([scores |-> scoreMenuItem(req.input.item, req.input).scores,
               day_adjustment |->
                   getDayOfWeekAdjustment(req.input.item.dish_name, req.input.date)])
    /\ UNCHANGED <<store, database, forecaster, now, prev>>

ReqMenuSuggestions == Request("getMenuSuggestions", SuggestionConstraints)

\* GET /api/planner/suggestions
MenuSuggestions ==
    /\ req.op = "getMenuSuggestions"
    /\ \E suggestions \in {getMenuSuggestions(req.input)} :
        /\ Answer(suggestions)
        /\ menu_data' = IF SuggestionsSortStore(req.input) THEN suggestions
                        ELSE menu_data
    /\ UNCHANGED <<pickup_data, external_data, production_data, impact_data,
                   database, forecaster, now, prev>>

ReqCorrelation == Request("correlation", SampleInputs)

Correlation ==
    /\ req.op = "correlation"
    /\ Answer(correlation(req.input.x, req.input.y))
    /\ UNCHANGED <<store, database, forecaster, now, prev>>

ReqSimpleCorrelation == Request("simpleCorrelation", SampleInputs)

SimpleCorrelation ==
    /\ req.op = "simpleCorrelation"
    /\ Answer(simpleCorrelation(req.input.x, req.input.y))
    /\ UNCHANGED <<store, database, forecaster, now, prev>>

ReqSummary == Request("summary", SummaryInputs)

Summary ==
    /\ req.op = "summary"
    /\ Answer(summary(req.input))
    /\ UNCHANGED <<store, database, forecaster, now, prev>>

ReqLinearRegression == Request("linearRegression", LinearInputs)

LinearRegression ==
    /\ req.op = "linearRegression"
    /\ Answer(linearRegression(req.input.x, req.input.y))
    /\ UNCHANGED <<store, database, forecaster, now, prev>>

ReqServicePredict == Request("ForecastService.predict", ForecastInputs)

\* POST /api/forecast
ServicePredict ==
    /\ req.op = "ForecastService.predict"
    /\ Answer(ForecastService_predict(req.input))
    /\ UNCHANGED <<store, database, forecaster, now, prev>>

ReqModelPredict == Request("ForecastModel.predict", ForecastInputs)

\* the trainModel runs counted so far and n more for menu_item
Trained(counts, menu_item, n) ==
    IF n = 0 THEN counts
    ELSE [k \in DOMAIN counts \cup {menu_item} |->
            (IF k \in DOMAIN counts THEN counts[k] ELSE 0)
            + (IF k = menu_item THEN n ELSE 0)]

\* predict runs to completion (it has no await) and returns out
RunPredict(input, out) ==
    \E result \in {ForecastModel_predict(model_cache, input)} :
        /\ \A k \in DOMAIN Trained(trainings, input.menu_item, result.trained) :
              Trained(trainings, input.menu_item, result.trained)[k] <= MaxTrainings
        /\ out = result.out
        /\ model_cache' = result.cache
        /\ trainings' = Trained(trainings, input.menu_item, result.trained)

ModelPredict ==
    /\ req.op = "ForecastModel.predict"
    /\ \E out \in {ForecastModel_predict(model_cache, req.input).out} :
        /\ RunPredict(req.input, out)
        /\ Answer(out)
    /\ UNCHANGED <<store, database, calls, now, prev>>

ReqFittedForecast == Request("ForecastModel.predict fitted", FittedInputs)

\* ForecastModel.predict from line 243 on, for the features and the model at hand
FittedForecastAnswer ==
    /\ req.op = "ForecastModel.predict fitted"
    /\ Answer(FittedForecast(req.input.features,
                             [coefficients |-> req.input.coefficients], req.input))
    /\ UNCHANGED <<store, database, forecaster, now, prev>>

ReqCalculateImpact == Request("calculateImpact", ImpactInputs)

\* POST /api/impact/calculate
CalculateImpact ==
    /\ req.op = "calculateImpact"
    /\ Answer(calculateImpact(req.input))
    /\ UNCHANGED <<store, database, forecaster, now, prev>>

ReqTrendMultipliers == Request("calculateTrendMultipliers", {<<>>})

\* calculateTrendMultipliers as projectFutureImpact calls it
TrendMultipliers ==
    /\ req.op = "calculateTrendMultipliers"
    /\ Answer(calculateTrendMultipliers)
    /\ UNCHANGED <<store, database, forecaster, now, prev>>

ReqLoaderParseLine == Request("DataLoader.parseCSVLine", Lines)

LoaderParseLine ==
    /\ req.op = "DataLoader.parseCSVLine"
    /\ Answer(DataLoader_parseCSVLine(req.input))
    /\ UNCHANGED <<store, database, forecaster, now, prev>>

ReqUploadParseLine == Request("UploadService.parseCSVLine", Lines)

UploadParseLine ==
    /\ req.op = "UploadService.parseCSVLine"
    /\ Answer(UploadService_parseCSVLine(req.input))
    /\ UNCHANGED <<store, database, forecaster, now, prev>>

ReqHistoricalComparison == Request("getHistoricalComparison", ComparisonInputs)

\* GET /api/impact/comparison
HistoricalComparison ==
    /\ req.op = "getHistoricalComparison"
    /\ \E randoms \in [1..Len(req.input) -> Randoms] :
        Answer(getHistoricalComparison(req.input, randoms))
    /\ UNCHANGED <<store, database, forecaster, now, prev>>

\* client c calls predict; the call waits for the event loop
Arrive(c) ==
    /\ calls[c].phase = "idle"
    /\ \E input \in ConcurrentInputs :
        calls' = [calls EXCEPT ![c] =
                    [phase |-> "waiting", input |-> input,
                     uncached |-> cache_key(input.menu_item) \notin DOMAIN model_cache]]
    /\ UNCHANGED <<store, database, model_cache, trainings, now, req, res, prev>>

\* the event loop runs the call of client c
Handle(c) ==
    /\ calls[c].phase = "waiting"
    /\ \E out \in {ForecastModel_predict(model_cache, calls[c].input).out} :
        /\ RunPredict(calls[c].input, out)
        /\ calls' = [calls EXCEPT ![c] =
                        [phase |-> "answered", input |-> calls[c].input,
                         uncached |-> calls[c].uncached, out |-> out]]
    /\ UNCHANGED <<store, database, now, req, res, prev>>

\* client c receives its result
Deliver(c) ==
    /\ calls[c].phase = "answered"
    /\ calls' = [calls EXCEPT ![c] = NoCall]
    /\ UNCHANGED <<store, database, model_cache, trainings, now, req, res, prev>>

\* ------------------------------------------- the database behind the routes
\* The routes keep what they computed in SQLite tables, every row under the id
\* of the authenticated user (req.user.id). What a row holds besides its owner
\* plays no part in who may read or change it, so the payloads are tokens here,
\* and the calculators above, which never read the tables, are left out of
\* these steps.
Tables == {"uploads", "forecasts", "planners", "pickups", "impact"}

EmptyDatabase == [table \in Tables |-> <<>>]

\* the authenticated users
Users == 1..MaxUsers

Statuses == {"Scheduled", "Completed"}

\* the rows stored so far, in all tables
RowCount ==
    Len(database["uploads"]) + Len(database["forecasts"]) + Len(database["planners"])
    + Len(database["pickups"]) + Len(database["impact"])

\* INSERT INTO table (user_id, ...) VALUES (?, ...): the id is the next rowid and
\* the timestamp column defaults to the current time
Insert(table, userId, columns) ==
    [database EXCEPT ![table] =
        Append(@, [id |-> Len(@) + 1, user_id |-> userId, at |-> now] @@ columns)]

\* SELECT ... FROM table WHERE user_id = ?
SelectWhereUser(table, userId) ==
    SelectSeq(database[table], LAMBDA row : row.user_id = userId)

\* the columns of a SELECT list
Project(rows, columns) ==
    [i \in 1..Len(rows) |-> [column \in columns |-> rows[i][column]]]

\* ORDER BY the timestamp DESC, rows of one timestamp staying in rowid order
OrderByAtDesc(rows) == SortDesc(LAMBDA a, b : a.at <= b.at, rows)

\* variant: the update matches the id alone
UpdatePickup_AnyOwner(id, userId, status) ==
    [database EXCEPT !["pickups"] =
        [i \in 1..Len(@) |->
            IF @[i].id = id
            THEN [@[i] EXCEPT !.status = status, !.at = now]
            ELSE @[i]]]

\* UPDATE pickups SET status = ?, details = ?, updated_at = CURRENT_TIMESTAMP
\* WHERE id = ? AND user_id = ?
UpdatePickup(id, userId, status) ==
    [database EXCEPT !["pickups"] =
        [i \in 1..Len(@) |->
            IF @[i].id = id /\ @[i].user_id = userId
            THEN [@[i] EXCEPT !.status = status, !.at = now]
            ELSE @[i]]]

\* a route serves a request of an idle service in one step
Served(op, input, out) ==
    /\ Idle
    /\ res' = [op |-> op, input |-> input, out |-> out]
    /\ UNCHANGED <<store, forecaster, now, req, prev>>

\* a route that inserts a row for the user
InsertRoute(op, table, columns) ==
    /\ RowCount < MaxRows
    /\ \E user \in Users :
        /\ database' = Insert(table, user, columns)
        /\ Served(op, [user |-> user], [success |-> TRUE])

\* a route that lists the user's rows, newest first
ListRoute(op, table, columns) ==
    /\ \E user \in Users :
        Served(op, [user |-> user],
               Project(OrderByAtDesc(SelectWhereUser(table, user)), columns))
    /\ UNCHANGED database

\* GET /api/pickups
GetPickups == ListRoute("GET /api/pickups", "pickups", {"id", "user_id", "status", "at"})

\* POST /api/pickups with the default status
PostPickup == InsertRoute("POST /api/pickups", "pickups", [status |-> "Scheduled"])

\* PATCH /api/pickups/:id
PatchPickup ==
    \E user \in Users, id \in 1..MaxRows, status \in Statuses :
        /\ database' = UpdatePickup(id, user, status)
        /\ Served("PATCH /api/pickups/:id", [user |-> user, id |-> id],
                  [success |-> TRUE])

\* POST /api/pickups/optimize keeps its result
PostOptimize ==
    InsertRoute("POST /api/pickups/optimize", "pickups", [status |-> "Optimized"])

\* GET /api/forecast
GetForecasts == ListRoute("GET /api/forecast", "forecasts", {"id", "data", "at"})

\* POST /api/forecast keeps its result
PostForecast == InsertRoute("POST /api/forecast", "forecasts", [data |-> "forecast"])

\* GET /api/planner
GetPlanners == ListRoute("GET /api/planner", "planners", {"id", "data", "at"})

\* POST /api/planner keeps its result
PostPlanner == InsertRoute("POST /api/planner", "planners", [data |-> "plan"])

\* GET /api/upload: no ORDER BY, the rows come in rowid order
GetUploads ==
    /\ \E user \in Users :
        Served("GET /api/upload", [user |-> user],
               Project(SelectWhereUser("uploads", user), {"id", "filename", "at"}))
    /\ UNCHANGED database

\* what upload.single('file') leaves in req.file: nothing, or one of the texts
NoFile == [present |-> FALSE]
FileTexts == {join(lines) : lines \in UploadedLines}
Files ==
    {NoFile}
    \cup {[present |-> TRUE, originalname |-> "file.csv", buffer |-> csv] : csv \in FileTexts}

\* categorizeCsv and validateCsv as the handler calls them, for each text
validations ==
    [csv \in FileTexts |->
        validateCsv([csvContent |-> csv,
                     expected_category |-> categorizeCsv(csv).suggested_category])]

\* variant: the row is stored before the validation is looked at
upload_StoreFirst(user, file, parsed, stored) ==
    IF ~file.present THEN [status |-> 400, database |-> database]
    ELSE LET validation == validations[file.buffer]
             inserted == Insert("uploads", user, [filename |-> file.originalname, data |-> "csv"])
         IN  IF ~validation.isValid THEN [status |-> 400, database |-> inserted]
             ELSE IF ~parsed \/ ~stored THEN [status |-> 500, database |-> database]
             ELSE [status |-> 200, database |-> inserted]

\* the handler of POST /api/upload: the status it answers and the tables it
\* leaves; parsed: parse() of csv-parse returns, stored: db.run returns (either
\* may throw instead)
upload(user, file, parsed, stored) ==
    IF ~file.present THEN [status |-> 400, database |-> database]
    ELSE LET validation == validations[file.buffer]
         IN  IF ~validation.isValid THEN [status |-> 400, database |-> database]
             ELSE IF ~parsed \/ ~stored THEN [status |-> 500, database |-> database]
             ELSE [status |-> 200,
                   database |-> Insert("uploads", user,
                                       [filename |-> file.originalname, data |-> "csv"])]

\* POST /api/upload
PostUpload ==
    \E user \in Users, file \in Files, parsed \in BOOLEAN, stored \in BOOLEAN :
        LET done == upload(user, file, parsed, stored)
        IN  /\ done.status = 200 => RowCount < MaxRows
            /\ database' = done.database
            /\ Served("POST /api/upload", [user |-> user, file |-> file],
                      [status |-> done.status, success |-> done.status = 200])

\* GET /api/upload/:id/insights: 404 when the user has no upload of that id
GetUploadInsights ==
    /\ \E user \in Users, id \in 1..MaxRows :
        Served("GET /api/upload/:id/insights", [user |-> user, id |-> id],
               Project(SelectSeq(database["uploads"],
                                 LAMBDA row : row.id = id /\ row.user_id = user),
                       {"id", "data"}))
    /\ UNCHANGED database

\* GET /api/impact
GetImpact == ListRoute("GET /api/impact", "impact", {"id", "user_id", "data", "at"})

\* POST /api/impact
PostImpact == InsertRoute("POST /api/impact", "impact", [data |-> "impact"])

\* POST /api/impact/calculate keeps its result
PostCalculate == InsertRoute("POST /api/impact/calculate", "impact", [data |-> "projection"])

\* the stores after construction: the loaders have read the csv files, the menu
\* catalog being one of menus and the production history one of productions
Loaded(menus, productions) ==
    /\ pickup_data = PickupHistory
    /\ external_data = ExternalHistory
    /\ production_data \in productions
    /\ menu_data \in menus
    /\ impact_data = ImpactHistory

\* the services after construction, no request made
Start(menus, productions) ==
    /\ Loaded(menus, productions)
    /\ database = EmptyDatabase
    /\ model_cache = <<>>
    /\ trainings = <<>>
    /\ calls = <<>>
    /\ now = 0
    /\ req = NoReq
    /\ res = NoRes
    /\ prev = NoRes

Init == Start({Catalog}, {ProductionHistory})

NextTracker ==
    \/ ReqOptimizePickups
    \/ OptimizePickups
    \/ ReqOptimalTime
    \/ OptimalTime
    \/ Repeat
    \/ Respond
    \/ Tick

SpecTracker == Init /\ [][NextTracker]_vars

InitPlanner == Start({Catalog, CatalogX}, {ProductionHistory, ProductionSoldOut})

NextPlanner ==
    \/ ReqOptimizeMenu
    \/ OptimizeMenu
    \/ ReqMenuSuggestions
    \/ MenuSuggestions
    \/ ReqScoreMenuItem
    \/ ScoreMenuItem
    \/ Repeat
    \/ Respond

SpecPlanner == InitPlanner /\ [][NextPlanner]_vars

InitForecast ==
    Start({Catalog}, {ProductionHistory, ProductionNoProtein, ProductionNoEntree})

NextForecast ==
    \/ ReqServicePredict
    \/ ServicePredict
    \/ ReqModelPredict
    \/ ModelPredict
    \/ ReqFittedForecast
    \/ FittedForecastAnswer
    \/ Repeat
    \/ Respond

SpecForecast == InitForecast /\ [][NextForecast]_vars

InitConcurrent ==
    /\ Loaded({Catalog}, {ProductionHistory})
    /\ database = EmptyDatabase
    /\ model_cache = <<>>
    /\ trainings = <<>>
    /\ calls = [c \in Clients |-> NoCall]
    /\ now = 0
    /\ req = NoReq
    /\ res = NoRes
    /\ prev = NoRes

NextConcurrent == \E c \in Clients : Arrive(c) \/ Handle(c) \/ Deliver(c)

SpecConcurrent == InitConcurrent /\ [][NextConcurrent]_vars

\* every calculator on one set of stores
NextCalculators ==
    \/ ReqOptimizePickups
    \/ OptimizePickups
    \/ ReqOptimizeMenu
    \/ OptimizeMenu
    \/ ReqServicePredict
    \/ ServicePredict
    \/ ReqModelPredict
    \/ ModelPredict
    \/ ReqCalculateImpact
    \/ CalculateImpact
    \/ ReqHistoricalComparison
    \/ HistoricalComparison
    \/ Repeat
    \/ Respond
    \/ Tick

InitCalculators == Start({Catalog}, {ProductionNoProtein})

SpecCalculators == InitCalculators /\ [][NextCalculators]_vars

\* the impact projector over the record sets
InitImpact ==
    /\ pickup_data = PickupHistory
    /\ external_data = ExternalHistory
    /\ production_data = ProductionHistory
    /\ menu_data = Catalog
    /\ impact_data \in ImpactHistories
    /\ database = EmptyDatabase
    /\ model_cache = <<>>
    /\ trainings = <<>>
    /\ calls = <<>>
    /\ now = 0
    /\ req = NoReq
    /\ res = NoRes
    /\ prev = NoRes

NextImpact ==
    \/ ReqCalculateImpact
    \/ CalculateImpact
    \/ ReqTrendMultipliers
    \/ TrendMultipliers
    \/ Repeat
    \/ Respond

SpecImpact == InitImpact /\ [][NextImpact]_vars

ReqValidateCsv == Request("validateCsv", ValidateInputs)

ValidateCsv ==
    /\ req.op = "validateCsv"
    /\ Answer(validateCsv(req.input))
    /\ UNCHANGED <<store, database, forecaster, now, prev>>

NextCsv ==
    \/ ReqLoaderParseLine
    \/ LoaderParseLine
    \/ ReqUploadParseLine
    \/ UploadParseLine
    \/ ReqValidateCsv
    \/ ValidateCsv
    \/ Respond

SpecCsv == Init /\ [][NextCsv]_vars

NextDatabase ==
    \/ GetPickups
    \/ PostPickup
    \/ PatchPickup
    \/ PostOptimize
    \/ GetForecasts
    \/ PostForecast
    \/ GetPlanners
    \/ PostPlanner
    \/ GetUploads
    \/ PostUpload
    \/ GetUploadInsights
    \/ GetImpact
    \/ PostImpact
    \/ PostCalculate
    \/ Respond

SpecDatabase == Init /\ [][NextDatabase]_vars

NextStats ==
    \/ ReqCorrelation
    \/ Correlation
    \/ ReqSimpleCorrelation
    \/ SimpleCorrelation
    \/ ReqSummary
    \/ Summary
    \/ ReqLinearRegression
    \/ LinearRegression
    \/ Respond

SpecStats == Init /\ [][NextStats]_vars

\* --------------------------------------------------------------- claims
Routes == IF res.op = "optimizePickups" THEN res.out.optimized_routes ELSE <<>>

\* C1: every route returned by optimizePickups, also one that received leftover
\* pickups, has total_volume <= 200 and at most 4 pickups
C1_RouteCaps ==
    \A i \in 1..Len(Routes) :
        /\ Routes[i].total_volume <= max_total_volume
        /\ Len(Routes[i].pickups) <= max_pickups_per_route

Menu == IF res.op = "optimizeMenu" THEN res.out.recommended_menu ELSE <<>>

\* the catalog rows of a dish
CatalogRows(name) == {i \in 1..Len(menu_data) : menu_data[i].dish_name = name}

\* recommended_quantity * cost_per_serving of a catalog row under the input of the
\* response, computed from the catalog and the production history alone
ServingCost(row, input) ==
    LET hist == SelectSeq(production_data, LAMBDA d : d.menu_item = row.dish_name)
        adj == IF Len(hist) = 0 THEN I(1)
               ELSE RMax(Q(7, 10), RSub(I(1), Q(SumSeq(WastePercentages(hist)),
                                                 100 * Len(hist))))
        base == Round(RMul(Q(input.estimated_students * row.popularity_score, 10),
                           RMul(getCategoryDemandFactor(row.menu_category), Q(3, 10))))
    IN  RMul(I(Round(RMul(I(base), adj))), row.ingredient_cost_per_serving)

\* the budget is feasible: one qualifying item of every target category that has
\* qualifying items can be served within budget_constraint
BudgetFeasible(input) ==
    LET ok == {i \in 1..Len(menu_data) :
                  /\ menu_data[i].menu_category \in Range(input.target_categories)
                  /\ menu_data[i].dish_name \notin Range(input.avoid_items)}
        wanted == SelectSeq(Distinct(input.target_categories), LAMBDA c :
                      \E i \in ok : menu_data[i].menu_category = c)
    IN  \E pick \in [1..Len(wanted) -> ok] :
            /\ \A k \in 1..Len(wanted) : menu_data[pick[k]].menu_category = wanted[k]
            /\ RLe(RSumSeq([k \in 1..Len(wanted) |->
                              ServingCost(menu_data[pick[k]], input)]),
                   I(input.budget_constraint))

\* C2: when budget_constraint is supplied and feasible, the total_cost returned by
\* optimizeMenu (greedy pass and back-fill together) does not exceed it
C2_WithinBudget ==
    (res.op = "optimizeMenu" /\ res.input.budget_constraint > 0
        /\ BudgetFeasible(res.input))
    => RLe(res.out.total_cost, I(res.input.budget_constraint))

\* C3: every recommended item is a catalog item whose menu_category is in
\* target_categories and whose dish_name is not in avoid_items; when no catalog
\* item qualifies the menu is empty
C3_MenuRespectsFilters ==
    res.op = "optimizeMenu" =>
        /\ \A i \in 1..Len(Menu) :
            /\ \E k \in CatalogRows(Menu[i].menu_item) :
                  menu_data[k].menu_category = Menu[i].category
            /\ Menu[i].category \in Range(res.input.target_categories)
            /\ Menu[i].menu_item \notin Range(res.input.avoid_items)
        /\ (\A k \in 1..Len(menu_data) :
                \/ menu_data[k].menu_category \notin Range(res.input.target_categories)
                \/ menu_data[k].dish_name \in Range(res.input.avoid_items))
           => Menu = <<>>

\* a non-empty menu from a catalog that also holds an avoided dish of a target
\* category and a dish of another category
C3_Witness ==
    /\ Menu # <<>>
    /\ \E k \in 1..Len(menu_data) :
          /\ menu_data[k].dish_name \in Range(res.input.avoid_items)
          /\ menu_data[k].menu_category \in Range(res.input.target_categories)
    /\ \E k \in 1..Len(menu_data) :
          menu_data[k].menu_category \notin Range(res.input.target_categories)

\* an empty menu because the only qualifying dish is avoided
C3_WitnessEmpty ==
    /\ res.op = "optimizeMenu" /\ Menu = <<>>
    /\ res.input.avoid_items # <<>>

\* C6: no calculator call changes the loaded record arrays or their order
C6_StoreUnchanged ==
    /\ pickup_data = PickupHistory
    /\ external_data = ExternalHistory
    /\ production_data = ProductionHistory
    /\ menu_data \in {Catalog, CatalogX}

\* round(round(students * popularity/10 * category factor * 0.3) * waste_adjustment)
\* of a catalog row, from the catalog and the production history
TwiceRounded(row, input) ==
    LET hist == SelectSeq(production_data, LAMBDA d : d.menu_item = row.dish_name)
        adj == IF Len(hist) = 0 THEN I(1)
               ELSE RMax(Q(7, 10), RSub(I(1), Q(SumSeq(WastePercentages(hist)),
                                                 100 * Len(hist))))
        base == Round(RMul(Q(input.estimated_students * row.popularity_score, 10),
                           RMul(getCategoryDemandFactor(row.menu_category), Q(3, 10))))
    IN  Round(RMul(I(base), adj))

\* round(students * popularity/10 * category factor * 0.3 * waste_adjustment)
OnceRounded(row, input) ==
    LET hist == SelectSeq(production_data, LAMBDA d : d.menu_item = row.dish_name)
        adj == IF Len(hist) = 0 THEN I(1)
               ELSE RMax(Q(7, 10), RSub(I(1), Q(SumSeq(WastePercentages(hist)),
                                                 100 * Len(hist))))
    IN  Round(RMul(RMul(Q(input.estimated_students * row.popularity_score, 10),
                        RMul(getCategoryDemandFactor(row.menu_category), Q(3, 10))), adj))

\* C7 as stated: recommended_quantity is the product of the five factors, rounded once
C7_RoundedOnce ==
    \A i \in 1..Len(Menu) : \A k \in CatalogRows(Menu[i].menu_item) :
        Menu[i].recommended_quantity = OnceRounded(menu_data[k], res.input)

\* C7: recommended_quantity is round(base * waste_adjustment) where base is the
\* already rounded round(students * popularity/10 * category factor * 0.3) and
\* waste_adjustment is max(0.7, 1 - avg_waste_pct/100), 1 without history; the
\* catalog of the single lunch item X with 1000 students yields exactly X with 240
C7_RoundedTwice ==
    /\ \A i \in 1..Len(Menu) : \A k \in CatalogRows(Menu[i].menu_item) :
          Menu[i].recommended_quantity = TwiceRounded(menu_data[k], res.input)
    /\ (/\ res.op = "optimizeMenu" /\ menu_data = CatalogX
        /\ res.input.estimated_students = 1000
        /\ "lunch" \in Range(res.input.target_categories)
        /\ "X" \notin Range(res.input.avoid_items)
        /\ res.input.budget_constraint \in {0, 2000})
       => /\ Len(Menu) = 1
          /\ Menu[1].menu_item = "X"
          /\ Menu[1].recommended_quantity = 240

\* a recommended dish with history whose rounded base quantity is not the
\* unrounded one, so that the two roundings give another quantity than one
C7_Witness ==
    \E i \in 1..Len(Menu) : \E k \in CatalogRows(Menu[i].menu_item) :
        /\ Menu[i].recommended_quantity = TwiceRounded(menu_data[k], res.input)
        /\ TwiceRounded(menu_data[k], res.input) # OnceRounded(menu_data[k], res.input)

\* neither sample is constant
NonDegenerate(input) ==
    /\ Cardinality(Range(input.x)) > 1
    /\ Cardinality(Range(input.y)) > 1

\* C10: correlation(x, y) = correlation(y, x), and the result lies in [-1, 1], for
\* non-degenerate samples of equal length
C10_SymmetricUnit ==
    (res.op = "correlation" /\ NonDegenerate(res.input))
    => /\ res.out = correlation(res.input.y, res.input.x)
       /\ InUnit(res.out)

\* the symmetry alone
C10_Symmetric ==
    res.op \in {"correlation", "simpleCorrelation"}
    => res.out = IF res.op = "correlation"
                 THEN correlation(res.input.y, res.input.x)
                 ELSE simpleCorrelation(res.input.y, res.input.x)

\* a response of one of the two forecasters
Forecast == res.op \in {"ForecastService.predict", "ForecastModel.predict"}

\* the production history has no row of the menu item
ZeroRows(menu_item) ==
    \A i \in 1..Len(production_data) : production_data[i].menu_item # menu_item

\* lower and upper are predicted_waste -/+ the same share of it, of 20 to 30 %
FixedBand(out) ==
    \E percent \in 20..30 :
        /\ out.confidence_interval.lower = RMul(out.predicted_waste, Q(100 - percent, 100))
        /\ out.confidence_interval.upper = RMul(out.predicted_waste, Q(100 + percent, 100))

\* C4: in both forecasters predict for a menu_item with zero historical rows
\* returns model_accuracy 0.65 or 0.7 and a confidence_interval that is a fixed
\* band of 20 to 30 % around predicted_waste
C4_FallbackBand ==
    (Forecast /\ ZeroRows(res.input.menu_item))
    => /\ res.out.model_accuracy \in {Q(65, 100), Q(7, 10)}
       /\ FixedBand(res.out)

\* the same for ForecastService alone
C4_ServiceFallbackBand ==
    (res.op = "ForecastService.predict" /\ ZeroRows(res.input.menu_item))
    => /\ res.out.model_accuracy \in {Q(65, 100), Q(7, 10)}
       /\ FixedBand(res.out)

\* a result of the fitted path of ForecastModel.predict
Fitted(out) == "model" \in DOMAIN out

\* C8: a stored model is never removed or replaced, no menu item has more than
\* one entry or is trained twice, and a predict for an item uses the model stored
\* for it: the one stored before the call if there was one
C8_CacheMonotone ==
    [][/\ \A k \in DOMAIN model_cache :
            k \in DOMAIN model_cache' /\ model_cache'[k] = model_cache[k]
       /\ \A item \in ForecastItems :
            /\ Cardinality({k \in DOMAIN model_cache' : k[Len(k)] = item}) <= 1
            /\ item \in DOMAIN trainings' => trainings'[item] <= 1
       /\ (res' # res /\ res'.op = "ForecastModel.predict" /\ Fitted(res'.out))
          => /\ cache_key(res'.input.menu_item) \in DOMAIN model_cache'
             /\ res'.out.model = model_cache'[cache_key(res'.input.menu_item)]
             /\ res'.out.interval_model = res'.out.model
             /\ cache_key(res'.input.menu_item) \in DOMAIN model_cache
                => res'.out.model = model_cache[cache_key(res'.input.menu_item)]
      ]_vars

\* the second of two predicts for an item is answered from the model that the
\* first one trained and stored
C8_Witness ==
    /\ res.op = "ForecastModel.predict" /\ Fitted(res.out)
    /\ prev # NoRes /\ Fitted(prev.out)
    /\ trainings[res.input.menu_item] = 1
    /\ res.out.model = model_cache[cache_key(res.input.menu_item)]

\* C9: whatever the order in which the concurrent calls arrive and run, every
\* result comes from the model that one training of the item produces, and that
\* model is the cache entry of the item
C9_EquivalentModel ==
    /\ \A c \in Clients :
        (calls[c].phase = "answered" /\ Fitted(calls[c].out))
        => /\ calls[c].out.model = trainModel(calls[c].input.menu_item)
           /\ calls[c].out.interval_model = trainModel(calls[c].input.menu_item)
    /\ \A item \in ForecastItems :
        cache_key(item) \in DOMAIN model_cache
        => model_cache[cache_key(item)] = trainModel(item)

\* two calls for the same item, both made while the item was not cached, are
\* both answered
C9_Witness ==
    \E c \in Clients, d \in Clients :
        /\ c # d
        /\ calls[c].phase = "answered" /\ calls[d].phase = "answered"
        /\ calls[c].input.menu_item = calls[d].input.menu_item
        /\ calls[c].uncached /\ calls[d].uncached
        /\ Fitted(calls[c].out) /\ Fitted(calls[d].out)
        /\ trainings[calls[c].input.menu_item] = 1

\* the same request has been answered twice, prev before res
AnsweredTwice == prev # NoRes /\ res # NoRes

\* the result of optimizePickups without the route_id of its routes
WithoutRouteIds(out) ==
    [out EXCEPT !.optimized_routes =
        [i \in 1..Len(out.optimized_routes) |->
            [out.optimized_routes[i] EXCEPT !.route_id = "RT"]]]

\* the result of getHistoricalComparison without percentage_change
WithoutPercentages(out) == [i \in 1..Len(out) |-> [out[i] EXCEPT !.percentage_change = I(0)]]

\* C5 as stated: the second of two identical calls of a calculator returns the
\* output of the first in every field, percentage_change of
\* getHistoricalComparison excepted
C5_Identical ==
    AnsweredTwice
    => IF res.op = "getHistoricalComparison"
       THEN WithoutPercentages(res.out) = WithoutPercentages(prev.out)
       ELSE res.out = prev.out

\* C5 amended: the outputs agree in every field except percentage_change of
\* getHistoricalComparison and route_id of the routes of optimizePickups
C5_IdenticalButRouteId ==
    AnsweredTwice
    => CASE res.op = "getHistoricalComparison" ->
                WithoutPercentages(res.out) = WithoutPercentages(prev.out)
         [] res.op = "optimizePickups" ->
                WithoutRouteIds(res.out) = WithoutRouteIds(prev.out)
         [] OTHER -> res.out = prev.out

\* optimizePickups answered twice, the clock having advanced in between: the
\* routes differ in their route_id
C5_Witness ==
    /\ AnsweredTwice
    /\ res.op = "optimizePickups"
    /\ Len(res.out.optimized_routes) > 0
    /\ res.out.optimized_routes[1].route_id # prev.out.optimized_routes[1].route_id

\* getHistoricalComparison answered twice with different percentage_change
C5_WitnessRandom ==
    /\ AnsweredTwice
    /\ res.op = "getHistoricalComparison"
    /\ res.out # prev.out

\* the regression forecast answered twice, first by training, then from the cache
C5_WitnessForecast ==
    /\ AnsweredTwice
    /\ res.op = "ForecastModel.predict" /\ Fitted(res.out)

\* C11: Statistics.summary of a single-element array [v] returns mean = median =
\* min = max = q1 = q3 = v and std = 0
C11_SingleElementSummary ==
    (res.op = "summary" /\ Len(res.input) = 1)
    => /\ \A field \in {"mean", "median", "min", "max", "q1", "q3"} :
             res.out[field] = Fl(res.input[1])
       /\ res.out.std = FZero

C11_Witness == res.op = "summary" /\ Len(res.input) = 1 /\ res.out.mean = Fl(12)

\* the x values of a series include two distinct ones
TwoDistinct(x) == \E i, j \in 1..Len(x) : x[i] # x[j]

\* C12: Statistics.linearRegression on a series y = a * x + b over at least two
\* distinct x values returns slope = a, intercept = b and r2 = 1
C12_RecoversLine ==
    res.op = "linearRegression"
    => \A a \in Slopes, b \in Intercepts :
          (TwoDistinct(res.input.x) /\ res.input.y = Line(res.input.x, a, b))
          => /\ res.out.slope = Fl(a)
             /\ res.out.intercept = Fl(b)
             /\ res.out.r2 = Fl(1)

\* the rows of a table that a user owns
OwnedRows(db, table, user) == SelectSeq(db[table], LAMBDA row : row.user_id = user)

\* the table a route reads
TableOf(op) ==
    CASE op \in {"GET /api/pickups"} -> "pickups"
      [] op = "GET /api/forecast" -> "forecasts"
      [] op = "GET /api/planner" -> "planners"
      [] op \in {"GET /api/upload", "GET /api/upload/:id/insights"} -> "uploads"
      [] op = "GET /api/impact" -> "impact"

ReadRoutes ==
    {"GET /api/pickups", "GET /api/forecast", "GET /api/planner", "GET /api/upload",
     "GET /api/upload/:id/insights", "GET /api/impact"}

\* every row a read route returned to a user is a row of that user
ReadsOwnRows ==
    res.op \in ReadRoutes
    => \A i \in 1..Len(res.out) :
          \E row \in Range(database[TableOf(res.op)]) :
              row.id = res.out[i].id /\ row.user_id = res.input.user

\* no step changes or removes a row of a user other than the one served
OthersRowsKept ==
    \A user \in Users, table \in Tables :
        (res'.op # "none" /\ res'.input.user # user)
        => OwnedRows(database', table, user) = OwnedRows(database, table, user)

\* C13: every read route returns to a user only rows of that user, and no request
\* of one user (a PATCH of another user's pickup included) changes or deletes a
\* row of another user
C13_TenantIsolation == [](ReadsOwnRows) /\ [][OthersRowsKept]_vars

\* user 2 has patched the id of a pickup that user 1 owns, and the pickup stands
C13_Witness ==
    /\ res.op = "PATCH /api/pickups/:id" /\ res.input.user = 2
    /\ \E row \in Range(database["pickups"]) : row.id = res.input.id /\ row.user_id = 1

\* C14: the menu returned by selectOptimalCombination (greedy pass and back-fill)
\* holds at most ceil(8 / len(target_categories)) items of one category and at
\* most 12 items in all
C14_MenuCaps ==
    res.op = "optimizeMenu" =>
        /\ Len(Menu) <= 12
        /\ \A c \in Range(res.input.target_categories) :
              Cardinality({i \in 1..Len(Menu) : Menu[i].category = c})
                  <= TargetPerCategory(res.input.target_categories)

\* the number of rows below which a forecaster falls back
Threshold(op) == IF op = "ForecastService.predict" THEN 3 ELSE 5

\* the response is one of the fallback path
TookFallback(r) ==
    IF r.op = "ForecastService.predict" THEN r.out.model_accuracy # Q(85, 100)
    ELSE ~Fitted(r.out)

\* the average waste_percentage of the item's category (the forecaster's default
\* category when the item has no row), or of all rows when the category has none
FallbackAverage(op, menu_item) ==
    LET rows == getMenuItemData(menu_item)
        category == IF Len(rows) > 0 THEN rows[1].category
                    ELSE IF op = "ForecastService.predict" THEN "Protein" ELSE "Entree"
        category_data == SelectSeq(production_data, LAMBDA d : d.category = category)
    IN  IF Len(category_data) = 0 THEN AvgWaste(production_data)
        ELSE AvgWaste(category_data)

\* C15: predict takes the fallback path exactly when the menu_item has fewer rows
\* than the forecaster's threshold (3 in ForecastService, 5 in ForecastModel), and
\* then predicted_waste_percentage is the average waste_percentage of the item's
\* category, or of the whole production history when the category has no rows
C15_FallbackAverage ==
    Forecast =>
        /\ TookFallback(res)
           <=> Len(getMenuItemData(res.input.menu_item)) < Threshold(res.op)
        /\ TookFallback(res)
           => res.out.predicted_waste_percentage
                  = FallbackAverage(res.op, res.input.menu_item)

\* the same for ForecastService alone
C15_ServiceFallbackAverage ==
    res.op = "ForecastService.predict" => C15_FallbackAverage

\* a percentage between lo and hi
Within(percentage, lo, hi) ==
    /\ percentage # NaN
    /\ RLe(I(lo), percentage) /\ RLe(percentage, I(hi))

\* predicted_waste = predicted_waste_percentage / 100 * quantity_to_prepare
WasteOfPercentage(r) ==
    r.out.predicted_waste
        = RMul(RDiv(r.out.predicted_waste_percentage, I(100)),
               I(r.input.quantity_to_prepare))

\* C16: on the non-fallback path predicted_waste_percentage lies in [0, 100]
\* whatever the inputs and the fitted coefficients (in [1, 50] for the
\* multiplicative forecaster), and predicted_waste is that percentage of
\* quantity_to_prepare
C16_ClampedPercentage ==
    /\ (res.op = "ForecastService.predict" /\ ~TookFallback(res))
       => /\ Within(res.out.predicted_waste_percentage, 1, 50)
          /\ WasteOfPercentage(res)
    /\ res.op = "ForecastModel.predict fitted"
       => /\ Within(res.out.predicted_waste_percentage, 0, 100)
          /\ WasteOfPercentage(res)

\* the same for ForecastService alone
C16_ServiceClampedPercentage ==
    (res.op = "ForecastService.predict" /\ ~TookFallback(res))
    => /\ Within(res.out.predicted_waste_percentage, 1, 50)
       /\ WasteOfPercentage(res)

\* round(quantity_to_prepare * (100 - 5) / (100 - percentage)), Infinity at 100
TargetQuantity(quantity_to_prepare, percentage) ==
    IF percentage = I(100) THEN Infinity
    ELSE I(Round(RDiv(I(quantity_to_prepare * (100 - 5)), RSub(I(100), percentage))))

\* C17: on the non-fallback path recommended_quantity is
\* round(quantity_to_prepare * (100 - 5) / (100 - predicted_waste_percentage))
\* for every percentage the clamp allows, in both forecasters, and it is finite
C17_TargetQuantity ==
    /\ (res.op = "ForecastService.predict" /\ ~TookFallback(res))
       => I(res.out.recommended_quantity)
              = TargetQuantity(res.input.quantity_to_prepare,
                               res.out.predicted_waste_percentage)
    /\ (res.op = "ForecastModel.predict fitted"
            /\ Within(res.out.predicted_waste_percentage, 0, 100))
       => /\ res.out.recommended_quantity
                 = TargetQuantity(res.input.quantity_to_prepare,
                                  res.out.predicted_waste_percentage)
          /\ res.out.recommended_quantity # Infinity

\* the same for ForecastService alone
C17_ServiceTargetQuantity ==
    (res.op = "ForecastService.predict" /\ ~TookFallback(res))
    => I(res.out.recommended_quantity)
           = TargetQuantity(res.input.quantity_to_prepare,
                            res.out.predicted_waste_percentage)

\* an influence is a number between 0 and 100
IsPercentage(x) == ~x.nan /\ FLe(FZero, x) /\ FLe(x, Fl(100))

\* factors_influence as stated, for the rows of the requested item
StatedInfluence(r) ==
    IF Len(getMenuItemData(r.input.menu_item)) < 5
    THEN r.out.factors_influence = DefaultInfluence
    ELSE \A f \in DOMAIN r.out.factors_influence :
             IsPercentage(r.out.factors_influence[f])

\* C18: with fewer than 5 rows of the requested item factors_influence is the
\* placeholder {weather 20, day_of_week 15, seasonal 10, event 25}; with 5 or more
\* each influence is |correlation| x 100, a number in [0, 100]
C18_FactorsInfluence ==
    res.op \in {"ForecastService.predict", "ForecastModel.predict"}
    => StatedInfluence(res)

\* the same for ForecastService alone
C18_ServiceFactorsInfluence ==
    res.op = "ForecastService.predict" => StatedInfluence(res)

\* the same for the fitted path of ForecastModel alone
C18_FittedFactorsInfluence ==
    (res.op = "ForecastModel.predict" /\ Fitted(res.out)) => StatedInfluence(res)

\* the rows of a dish, and those of the weekday of a date
DishRows(dish_name) == SelectSeq(production_data, LAMBDA d : d.menu_item = dish_name)
DishDayRows(dish_name, date) ==
    SelectSeq(DishRows(dish_name), LAMBDA d : d.day_of_week = Weekday(date))

\* x clamped to [0.5, 1.5]
Clamped(x) == RMax(Q(1, 2), RMin(Q(3, 2), x))

\* the weighted sum of the six scores
WeightedSum(sc) ==
    RAdd(RMul(sc.waste_score, Q(30, 100)),
    RAdd(RMul(sc.popularity_score, Q(25, 100)),
    RAdd(RMul(sc.cost_score, Q(20, 100)),
    RAdd(RMul(sc.prep_score, Q(10, 100)),
    RAdd(RMul(sc.shelf_life_score, Q(10, 100)),
         RMul(sc.season_score, Q(5, 100)))))))

\* the adjustment is a number in [0.5, 1.5], 1 without history on the weekday,
\* and the composite score is the weighted sum times the adjustment
AdjustmentApplied(r) ==
    /\ r.out.day_adjustment # NaN
    /\ RLe(Q(1, 2), r.out.day_adjustment) /\ RLe(r.out.day_adjustment, Q(3, 2))
    /\ Len(DishDayRows(r.input.item.dish_name, r.input.date)) = 0
       => r.out.day_adjustment = I(1)
    /\ r.out.scores.composite_score
           = RMul(WeightedSum(r.out.scores), r.out.day_adjustment)

\* C19: the day-of-week adjustment of a dish is its same-weekday average waste
\* over its overall average waste, clamped to [0.5, 1.5], and 1 when the dish has
\* no row on that weekday; the composite score is the 0.30/0.25/0.20/0.10/0.10/0.05
\* weighted sum of the scores times the adjustment
C19_DayOfWeekAdjustment ==
    res.op = "scoreMenuItem"
    => /\ AdjustmentApplied(res)
       /\ Len(DishDayRows(res.input.item.dish_name, res.input.date)) > 0
          => res.out.day_adjustment
                 = Clamped(RDiv(AvgWaste(DishDayRows(res.input.item.dish_name,
                                                     res.input.date)),
                                AvgWaste(DishRows(res.input.item.dish_name))))

\* the same without the direction of the ratio
C19_AdjustmentApplied == res.op = "scoreMenuItem" => AdjustmentApplied(res)

\* the adjustment is the overall average over the same-weekday average, clamped,
\* for the dishes whose same-weekday average is not 0
C19_OverallOverDay ==
    (/\ res.op = "scoreMenuItem"
     /\ Len(DishDayRows(res.input.item.dish_name, res.input.date)) > 0
     /\ AvgWaste(DishDayRows(res.input.item.dish_name, res.input.date)) # I(0))
    => res.out.day_adjustment
           = Clamped(RDiv(AvgWaste(DishRows(res.input.item.dish_name)),
                          AvgWaste(DishDayRows(res.input.item.dish_name,
                                               res.input.date))))

\* the routes of the drivers and the pickups left over, before the leftovers are
\* placed, for the request of the response
Drafted ==
    DriverLoop(Len(res.input.available_drivers), res.input.available_drivers,
               generatePickupSuggestions(res.input), now)

\* leftover j is among the pickups that route i received after it was drafted
PlacedIn(d, i, j) ==
    \E p \in (Len(d.routes[i].pickups) + 1)..Len(Routes[i].pickups) :
        Routes[i].pickups[p].pickup_id = d.remaining[j].pickup_id

\* the total_time of route i when leftover j is placed: the drafted one while the
\* route has received no leftover, the recomputed sum of durations afterwards
TimeBefore(d, i, j) ==
    LET earlier == {k \in 1..(j - 1) : PlacedIn(d, i, k)}
        duration(s) == SumSeq([p \in 1..Len(s) |-> s[p].estimated_duration])
    IN  IF earlier = {} THEN d.routes[i].total_time
        ELSE duration(d.routes[i].pickups)
               + SumSeq([k \in 1..(j - 1) |->
                    IF k \in earlier THEN d.remaining[k].estimated_duration ELSE 0])

\* the leftovers are in priority order
InPriorityOrder(s) ==
    \A j \in 1..Len(s) : \A k \in (j + 1)..Len(s) :
        RLe(s[k].priority_score, s[j].priority_score)

\* route i holds its drafted pickups and then its leftovers in their order, and
\* its metrics are those of the pickups it holds if it received a leftover
KeepsOrderAndMetrics(d, i) ==
    LET mine == SelectSeq(d.remaining, LAMBDA p :
                    \E j \in 1..Len(d.remaining) :
                        d.remaining[j].pickup_id = p.pickup_id /\ PlacedIn(d, i, j))
        held == Routes[i].pickups
    IN  /\ [p \in 1..Len(held) |-> held[p].pickup_id]
             = [p \in 1..(Len(d.routes[i].pickups) + Len(mine)) |->
                   IF p <= Len(d.routes[i].pickups)
                   THEN d.routes[i].pickups[p].pickup_id
                   ELSE mine[p - Len(d.routes[i].pickups)].pickup_id]
        /\ Len(mine) > 0
           => /\ Routes[i].total_time
                    = SumSeq([p \in 1..Len(held) |-> held[p].estimated_duration])
              /\ Routes[i].total_volume
                    = SumSeq([p \in 1..Len(held) |-> held[p].estimated_volume])
              /\ Routes[i].total_cost
                    = RSumSeq([p \in 1..Len(held) |-> held[p].transport_cost])

\* C20: the leftover pickups are placed one at a time in priority order, each at
\* the end of the route whose total_time is the smallest at that moment (the
\* first of them on a tie), the total_time, total_volume and total_cost of the
\* chosen route being recomputed before the next leftover is placed
C20_LeftoversToLeastTime ==
    res.op = "optimizePickups"
    => With(Drafted, LAMBDA d :
       /\ Len(Routes) = Len(d.routes)
       /\ InPriorityOrder(d.remaining)
       /\ \A j \in 1..Len(d.remaining) :
            \E i \in 1..Len(Routes) :
                /\ PlacedIn(d, i, j)
                /\ \A k \in 1..Len(Routes) :
                      /\ k # i => ~PlacedIn(d, k, j)
                      /\ TimeBefore(d, i, j) <= TimeBefore(d, k, j)
                      /\ k < i => TimeBefore(d, i, j) < TimeBefore(d, k, j)
       /\ \A i \in 1..Len(Routes) : KeepsOrderAndMetrics(d, i))

\* two leftovers were placed, the second on another route than the one that was
\* the fastest before the first was placed
C20_Witness ==
    /\ res.op = "optimizePickups"
    /\ Len(Routes) >= 2
    /\ With(Drafted, LAMBDA d :
          /\ Len(d.remaining) >= 2
          /\ \E i, k \in 1..Len(Routes) :
                i # k /\ PlacedIn(d, i, 1) /\ PlacedIn(d, k, 2))

\* the number a string of digits writes
RECURSIVE Number(_)
Number(digits) ==
    IF digits = <<>> THEN 0
    ELSE 10 * Number(SubSeq(digits, 1, Len(digits) - 1)) + digits[Len(digits)]

\* the minutes since midnight of a time of day 'h:mm' or 'hh:mm'
Minutes(t) ==
    60 * Number(HourPart(t)) + Number(SubSeq(t, Len(HourPart(t)) + 2, Len(t)))

\* the answer is the peak hour of the location clamped to the window
ClampedToWindow(r) ==
    LET peak == Minutes(analyzeLocationPatterns(r.input.location)
                            .time_distribution.peak_start)
        earliest == Minutes(r.input.time_constraints.earliest_pickup)
        latest == Minutes(r.input.time_constraints.latest_pickup)
    IN  /\ earliest <= Minutes(r.out) /\ Minutes(r.out) <= latest
        /\ Minutes(r.out) = IF peak < earliest THEN earliest
                            ELSE IF peak > latest THEN latest ELSE peak

\* C21: with time_constraints whose earliest_pickup is not after latest_pickup the
\* recommended time lies in the window: it is the peak hour of the location when
\* that lies in the window and the nearer bound otherwise, whether the hours of
\* the history are written '9' or '09'
C21_ClampedToWindow ==
    (res.op = "calculateOptimalTime" /\ "time_constraints" \in DOMAIN res.input)
    => ClampedToWindow(res)

\* the same for the locations whose peak hour is written with two digits
C21_TwoDigitHours ==
    (/\ res.op = "calculateOptimalTime"
     /\ "time_constraints" \in DOMAIN res.input
     /\ Len(analyzeLocationPatterns(res.input.location)
                .time_distribution.peak_start) = 5)
    => ClampedToWindow(res)

\* the average of a daily field over rows, as a ratio of two sums
FieldSum(rows, metric) == SumSeq([i \in 1..Len(rows) |-> rows[i][DailyField(metric)]])

\* the most recent n records and the n records before them
RecentWindow(n) ==
    SubSeq(impact_data, IF Len(impact_data) > n THEN Len(impact_data) - n + 1 ELSE 1,
           Len(impact_data))
PrecedingWindow(n) ==
    SubSeq(impact_data, IF Len(impact_data) > 2 * n THEN Len(impact_data) - 2 * n + 1 ELSE 1,
           Len(impact_data) - n)

\* the mild-growth constants
MildGrowth(metric) ==
    CASE metric \in {"food_rescued_lbs", "meals_provided", "co2_emissions_avoided_lbs"}
             -> Q(102, 100)
      [] metric = "volunteer_hours" -> I(1)
      [] OTHER -> Q(101, 100)

\* the trend multiplier of a metric as stated
StatedTrend(metric) ==
    LET recent == RecentWindow(14)
        older == PrecedingWindow(14)
    IN  IF Len(recent) = 0 \/ Len(older) = 0 THEN MildGrowth(metric)
        ELSE IF FieldSum(older, metric) = 0 THEN I(1)
        ELSE LET ratio == Q(FieldSum(recent, metric) * Len(older),
                            FieldSum(older, metric) * Len(recent))
             IN  IF RLt(ratio, Q(8, 10)) THEN Q(8, 10)
                 ELSE IF RLt(Q(13, 10), ratio) THEN Q(13, 10) ELSE ratio

\* C22: every trend multiplier lies in [0.8, 1.3]: it is the clamped ratio of the
\* average of the most recent 14 records to that of the 14 records before them,
\* the mild-growth constant when either window is empty, and 1 when the older
\* average is 0
C22_TrendMultipliers ==
    res.op = "calculateTrendMultipliers"
    => \A metric \in MetricNames :
          /\ RLe(Q(8, 10), res.out[metric]) /\ RLe(res.out[metric], Q(13, 10))
          /\ res.out[metric] = StatedTrend(metric)

\* multipliers of a sixteen-record set: one strictly inside the bounds, one at
\* each bound, and one for an older average of 0
C22_Witness ==
    /\ res.op = "calculateTrendMultipliers"
    /\ Len(impact_data) > 14
    /\ res.out["food_rescued_lbs"] = Q(12, 10)
    /\ res.out["meals_provided"] = Q(13, 10)
    /\ res.out["community_impact_score"] = Q(8, 10)
    /\ FieldSum(PrecedingWindow(14), "volunteer_hours") = 0
    /\ res.out["volunteer_hours"] = I(1)

\* the constants are answered for a set of ten records
C22_WitnessShort ==
    /\ res.op = "calculateTrendMultipliers"
    /\ Len(impact_data) = 10
    /\ res.out["money_saved"] = Q(101, 100)

\* 1/52, 1/12, 1/4 and 1
StatedPeriod(projection_period) ==
    CASE projection_period = "week" -> Q(1, 52)
      [] projection_period = "month" -> Q(1, 12)
      [] projection_period = "quarter" -> Q(1, 4)
      [] projection_period = "year" -> I(1)

\* 1 + target / 100 for the intervention field of the metric, a target of 0
\* standing for an omitted field; 1 without intervention_scenarios and for the
\* community score, which no intervention field scales
StatedScenario(input, metric) ==
    LET s == input.intervention_scenarios
        target == CASE metric \in {"money_saved", "operational_savings"}
                           -> s.cost_optimization_target
                    [] metric = "volunteer_hours" -> s.pickup_efficiency_improvement
                    [] metric = "community_impact_score" -> 0
                    [] OTHER -> s.waste_reduction_target
    IN  IF s.provided THEN Q(100 + target, 100) ELSE I(1)

\* C23: each projected metric is the annualized current metric times the period
\* multiplier (1/52, 1/12, 1/4, 1) times the trend multiplier times the scenario
\* multiplier, which is 1 + target/100 for a supplied intervention field and 1
\* for an omitted field or omitted intervention_scenarios
C23_ProjectedProduct ==
    res.op = "calculateImpact"
    => \A metric \in MetricNames :
          res.out.projected_metrics[metric]
              = RMul(RMul(RMul(res.out.current_metrics[metric],
                               StatedPeriod(res.input.projection_period)),
                          StatedTrend(metric)),
                     StatedScenario(res.input, metric))

\* a weekly projection with a supplied and an omitted intervention field, over a
\* record set with a clamped trend
C23_Witness ==
    /\ res.op = "calculateImpact"
    /\ res.input.projection_period = "week"
    /\ res.input.intervention_scenarios.provided
    /\ StatedScenario(res.input, "food_rescued_lbs") = Q(11, 10)
    /\ StatedScenario(res.input, "volunteer_hours") = I(1)
    /\ StatedTrend("meals_provided") = Q(13, 10)

\* improvement_potential is projected minus current
IsDifference(r) ==
    \A metric \in MetricNames :
        r.out.improvement_potential[metric]
            = RSub(r.out.projected_metrics[metric], r.out.current_metrics[metric])

\* C24: improvement_potential is projected minus current per metric, both on the
\* scale of the requested period: with a trend multiplier of 1 and no scenarios
\* the improvement potential of a metric is 0 for every period
C24_SameScale ==
    res.op = "calculateImpact"
    => /\ IsDifference(res)
       /\ \A metric \in MetricNames :
            (~res.input.intervention_scenarios.provided /\ StatedTrend(metric) = I(1))
            => res.out.improvement_potential[metric] = I(0)

\* the same for the period of a year, and the difference for every period
C24_YearScale ==
    res.op = "calculateImpact"
    => /\ IsDifference(res)
       /\ \A metric \in MetricNames :
            (/\ res.input.projection_period = "year"
             /\ ~res.input.intervention_scenarios.provided
             /\ StatedTrend(metric) = I(1))
            => res.out.improvement_potential[metric] = I(0)

\* the commas of a line that have an even number of quotes before them, and the
\* others
OutsideQuotes(line, i) == Cardinality({k \in 1..(i - 1) : line[k] = Quote}) % 2 = 0
SplittingCommas(line) == {i \in 1..Len(line) : line[i] = Comma /\ OutsideQuotes(line, i)}
QuotedCommas(line) == {i \in 1..Len(line) : line[i] = Comma /\ ~OutsideQuotes(line, i)}

\* the response is one of parseCSVLine
Parsed == res.op \in {"DataLoader.parseCSVLine", "UploadService.parseCSVLine"}

\* C25: parseCSVLine splits a line at the commas outside double quotes only: it
\* returns 1 + (number of those commas) fields, a comma between quotes stays in
\* its field, no field holds a quote, and the copies of the record store and of
\* the upload service return the same fields
C25_SplitsOutsideQuotes ==
    Parsed
    => /\ Len(res.out) = 1 + Cardinality(SplittingCommas(res.input))
       /\ SumSeq([f \in 1..Len(res.out) |-> Count(res.out[f], Comma)])
              = Cardinality(QuotedCommas(res.input))
       /\ \A f \in 1..Len(res.out) : Count(res.out[f], Quote) = 0
       /\ res.out = DataLoader_parseCSVLine(res.input)
       /\ res.out = UploadService_parseCSVLine(res.input)

\* a line with a comma between quotes and a comma outside them
C25_Witness ==
    /\ Parsed
    /\ QuotedCommas(res.input) # {}
    /\ SplittingCommas(res.input) # {}
    /\ Len(res.out) = 2

\* the lines of a text, counted with the line breaks left after the
\* surrounding blank space is dropped
LinesOf(text) == 1 + Count(trim(text), LineBreak)

\* C29: validateCsv answers valid_rows + invalid_rows = total_rows = the number
\* of lines after the first, and isValid exactly when errors is empty and
\* invalid_rows is 0; a text of one line is never valid
C29_RowsAccounted ==
    res.op = "validateCsv"
    => LET s == res.out.statistics
       IN  /\ s.valid_rows + s.invalid_rows = s.total_rows
           /\ s.total_rows = LinesOf(res.input.csvContent) - 1
           /\ res.out.isValid <=> (res.out.errors = <<>> /\ s.invalid_rows = 0)
           /\ LinesOf(res.input.csvContent) = 1 => ~res.out.isValid

\* a text with a valid row, a row that fails its category's validation and
\* none of another column count
C29_Witness ==
    /\ res.op = "validateCsv"
    /\ res.out.statistics.valid_rows = 1
    /\ res.out.statistics.invalid_rows = 1
    /\ res.out.warnings.miscounted_lines = {}
    /\ res.out.detected_format = "daily_production"

\* a text of another column count in one line; a valid text; a text of one line
C29_WitnessMiscounted ==
    /\ res.op = "validateCsv"
    /\ res.out.warnings.miscounted_lines = {3}
    /\ res.out.statistics.valid_rows = 1
C29_WitnessValid ==
    /\ res.op = "validateCsv"
    /\ res.out.isValid
    /\ res.out.statistics.valid_rows = 2
    /\ "expected_category" \notin DOMAIN res.input
    /\ res.out.detected_format = "daily_production"
C29_WitnessHeaderOnly ==
    /\ res.op = "validateCsv"
    /\ res.out.statistics.total_rows = 0
    /\ res.out.errors # <<>>

\* a step that serves POST /api/upload
UploadServed == res.op = "none" /\ res'.op = "POST /api/upload"

\* what validateCsv reports on the file of the upload just served
ReportedValid(r) ==
    /\ r.input.file.present
    /\ validations[r.input.file.buffer].isValid

\* the uploads table gained exactly one row, of the given user
OneRowInserted(user) ==
    /\ Len(database'["uploads"]) = Len(database["uploads"]) + 1
    /\ SubSeq(database'["uploads"], 1, Len(database["uploads"])) = database["uploads"]
    /\ database'["uploads"][Len(database'["uploads"])].user_id = user

UploadStep ==
    UploadServed
    => /\ database'["uploads"] # database["uploads"] => ReportedValid(res')
       /\ ~res'.input.file.present => res'.out.status = 400
       /\ (res'.input.file.present /\ ~ReportedValid(res')) => res'.out.status = 400
       /\ res'.out.status \in {200, 400, 500}
       /\ res'.out.status \in {400, 500}
              => ~res'.out.success /\ database' = database
       /\ res'.out.success => OneRowInserted(res'.input.user)

\* C30: POST /api/upload inserts into uploads only when validateCsv reports
\* isValid; without a file or with a failed validation it answers 400, with a
\* parse or store failure 500, the tables unchanged each time; success true
\* means exactly one row was inserted, for the calling user
C30_InsertsOnlyValid == [][UploadStep]_vars

\* user 2 has uploaded a valid file after user 1, and the last row is theirs
C30_Witness ==
    /\ res.op = "POST /api/upload" /\ res.out.success /\ res.input.user = 2
    /\ Len(database["uploads"]) = 2
    /\ database["uploads"][1].user_id = 1 /\ database["uploads"][2].user_id = 2

\* answers 400 for a file that fails the validation, 400 without a file and 500
\* for a valid file, with rows stored before
C30_WitnessInvalid ==
    /\ res.op = "POST /api/upload" /\ res.out.status = 400 /\ res.input.file.present
    /\ Len(database["uploads"]) = 1
C30_WitnessNoFile ==
    /\ res.op = "POST /api/upload" /\ res.out.status = 400 /\ ~res.input.file.present
    /\ Len(database["uploads"]) = 1
C30_WitnessFailure ==
    /\ res.op = "POST /api/upload" /\ res.out.status = 500
    /\ Len(database["uploads"]) = 1

\* the pickups of all returned routes, route after route
RECURSIVE PickupsUpTo(_)
PickupsUpTo(i) == IF i = 0 THEN <<>> ELSE PickupsUpTo(i - 1) \o Routes[i].pickups
AllPickups == PickupsUpTo(Len(Routes))

\* a returned route holds more pickups than it was drafted with: leftovers were
\* appended to it
LeftoversAppended ==
    With(Drafted, LAMBDA d :
        \E i \in 1..Len(Routes) : Len(Routes[i].pickups) > Len(d.routes[i].pickups))

TotalsOf(pickups) ==
    With(SumSeq([k \in 1..Len(pickups) |-> pickups[k].estimated_volume]), LAMBDA lbs :
        /\ res.out.total_volume_rescued = lbs
        /\ res.out.total_meals_equivalent = RMul(Q(25, 10), I(lbs))
        /\ res.out.total_co2_savings = RMul(Q(32, 10), I(lbs))
        /\ res.out.total_transport_cost
               = RSumSeq([k \in 1..Len(pickups) |-> pickups[k].transport_cost]))

\* C26: in every TrackerResult total_volume_rescued is the sum of
\* estimated_volume over the pickups of all returned routes, total_meals_equivalent
\* 2.5 times and total_co2_savings 3.2 times that volume, and
\* total_transport_cost the sum of the pickups' transport_cost, also when
\* leftovers were appended
C26_TotalsOverPickups ==
    res.op = "optimizePickups" => With(AllPickups, LAMBDA pickups : TotalsOf(pickups))

\* two routes, one of which received leftovers
C26_Witness ==
    /\ res.op = "optimizePickups"
    /\ Len(Routes) = 2
    /\ LeftoversAppended
    /\ res.out.total_volume_rescued > 0

\* the candidate pickups of the request served, and their places in the routes
Candidates == generatePickupSuggestions(res.input)
PlacesOf(id) ==
    {<<i, j>> \in (1..Len(Routes)) \X (1..MaxLocs + 1) :
        j <= Len(Routes[i].pickups) /\ Routes[i].pickups[j].pickup_id = id}

\* what a returned pickup holds besides the driver and the score of its choice
AsSuggested(pickup) ==
    [field \in DOMAIN pickup \ {"composite_score"} |->
        IF field = "driver_assignment" THEN "" ELSE pickup[field]]

InOneRoute(candidates) ==
    /\ Len(candidates) = Len(res.input.available_locations)
    /\ \A k \in 1..Len(candidates) :
          /\ Cardinality(PlacesOf(candidates[k].pickup_id)) = 1
          /\ \A place \in PlacesOf(candidates[k].pickup_id) :
                AsSuggested(Routes[place[1]].pickups[place[2]]) = candidates[k]
    /\ SumSeq([i \in 1..Len(Routes) |-> Len(Routes[i].pickups)]) = Len(candidates)
    /\ \A i \in 1..Len(Routes) : \A j \in 1..Len(Routes[i].pickups) :
          Routes[i].pickups[j].driver_assignment = Routes[i].driver

\* C27: with at least one driver every candidate pickup of optimizePickups, one
\* per entry of available_locations, is in exactly one returned route, none is
\* dropped or doubled, and the driver_assignment of a pickup is the driver of
\* the route that holds it
C27_EveryCandidateOnce ==
    (res.op = "optimizePickups" /\ Len(res.input.available_drivers) >= 1)
    => With(Candidates, LAMBDA candidates : InOneRoute(candidates))

\* two drivers, a location asked for twice, and a leftover appended
C27_Witness ==
    /\ res.op = "optimizePickups"
    /\ Len(Routes) = 2
    /\ \E k, m \in 1..Len(res.input.available_locations) :
          k # m /\ res.input.available_locations[k] = res.input.available_locations[m]
    /\ LeftoversAppended

\* route.locations is the source_location of route.pickups, in order
LocationsOfPickups(route) ==
    route.locations = [j \in 1..Len(route.pickups) |-> route.pickups[j].source_location]

\* C28: for every returned route, locations is the sequence of the
\* source_location of its pickups in order and total_distance the distance summed
\* over that sequence, also for a route that received leftovers
C28_LocationsFollowPickups ==
    \A i \in 1..Len(Routes) :
        /\ LocationsOfPickups(Routes[i])
        /\ Routes[i].total_distance
               = calculateTotalDistance([j \in 1..Len(Routes[i].pickups) |->
                                            Routes[i].pickups[j].source_location])

\* the same for the routes that received no leftover
C28_DraftedLocations ==
    res.op = "optimizePickups"
    => With(Drafted, LAMBDA d :
          \A i \in 1..Len(Routes) :
              /\ Routes[i].total_distance = calculateTotalDistance(Routes[i].locations)
              /\ Len(Routes[i].pickups) = Len(d.routes[i].pickups)
                    => LocationsOfPickups(Routes[i]))

====
